---- MODULE Spec2Model ----
(***************************************************************************)
(* DML resolution of the SQL resolver (edb/pgsql/resolver/command.py).     *)
(*                                                                         *)
(* Four specifications share the variables of this module:                 *)
(*   SpecValue  _preprocess_insert_value applied to a row source, and      *)
(*              applied again to its own output;                           *)
(*   SpecCols   one statement with a column list through resolve_CopyStmt  *)
(*              or _preprocess_insert_stmt;                                *)
(*   SpecStmt   one INSERT, over all row sources, through                  *)
(*              _preprocess_insert_stmt;                                   *)
(*   Spec       a top-level statement through compile_dml and then the     *)
(*              resolver's walk over its DML nodes.                        *)
(*                                                                         *)
(* Encoding of Python values: a list is a sequence; None and the empty     *)
(* list of the fields `values`, `ctes`, `cols`, `colnames` and             *)
(* `returning_list` are both the empty sequence (the code only ever tests  *)
(* these fields for truthiness, and the parser yields None, never []);     *)
(* an absent query is the record NoQuery.                                  *)
(***************************************************************************)
EXTENDS Integers, Sequences, FiniteSets, TLC

VARIABLES
    \* SpecValue
    v_pc,       \* "idle", "start", "ran1", "ran2"
    v_query,    \* the row-source query object passed to _preprocess_insert_value
    v_ctes,     \* the statement's CTE list passed as value_ctes
    v_cols,     \* the expected_columns list object passed in
    v_run1,     \* result of the first run
    v_run2,     \* result of the second run, on the first run's output
    \* SpecCols and SpecStmt
    s_pc,       \* "idle", "start", "done"
    s_given,    \* the statement as it was handed to the handler
    s_stmt,     \* the statement node (a CopyStmt or an InsertStmt)
    s_ctx,      \* the resolver context: alias counter and CTE buffer
    s_copy,     \* what resolve_CopyStmt returned or raised
    s_pre,      \* what _preprocess_insert_stmt returned or raised
    \* Spec
    p_pc,       \* "idle", "start", "preprocessed", "ir", "compiled", "walk",
                \* "done", "raised"
    p_top,      \* the top-level statement
    p_dml,      \* the nodes _collect_dml_stmts returned, as preprocessing left them
    p_ctx,      \* the resolver context: alias counter, CTE buffer, compiled_dml
    p_batch,    \* the locals of _compile_preprocessed_dml
    p_calls,    \* how often each function of the object-query compiler was called
    p_ret,      \* what compile_dml returned or raised
    p_stack,    \* the resolver's calls in progress, innermost first
    p_last      \* the most recent call of a handler of this file

(***************************************************************************)
(* Bounds of the model.                                                    *)
(***************************************************************************)
MaxRows == 2        \* rows of a VALUES list
MaxWidth == 2       \* entries of one VALUES row
MaxCols == 3        \* columns of an expected-column list given to the normalizer
MaxColList == 2     \* names of an explicit column list
MaxCtes == 2        \* CTEs in the WITH list of a top-level statement
MaxEmit == 3        \* CTEs the object-query compiler emits for one batch

(***************************************************************************)
(* Helpers on sequences and sets.                                          *)
(***************************************************************************)
\* Python `del s[i]` for a 0-based i = at - 1 that is in range.
RemoveAt(s, at) == SubSeq(s, 1, at - 1) \o SubSeq(s, at + 1, Len(s))

SetMax(S) == CHOOSE m \in S : \A n \in S : n <= m

SeqsUpTo(S, n) == UNION {[1..k -> S] : k \in 0..n}

(***************************************************************************)
(* Errors.  pgext_code "default" is a QueryError built without pgext_code. *)
(***************************************************************************)
NoError == [type |-> "none", msg |-> <<>>, pgext_code |-> "none", span |-> "none"]

QueryError(msg, span, code) ==
    [type |-> "QueryError", msg |-> msg, pgext_code |-> code, span |-> span]

PyError(type) == [type |-> type, msg |-> <<>>, pgext_code |-> "none", span |-> "none"]

(***************************************************************************)
(* pgast nodes.                                                            *)
(***************************************************************************)
NoQuery == [type |-> "None"]

SelectStmt(values, target_list, from_clause, limit_count, ctes, span) ==
    [type |-> "SelectStmt", values |-> values, target_list |-> target_list,
     from_clause |-> from_clause, limit_count |-> limit_count, ctes |-> ctes,
     span |-> span]

\* pgast.Keyword(name='DEFAULT') and the other expressions of a VALUES row.
Exprs == {"DEFAULT", "e1"}

\* A plain (non-VALUES) row source: SELECT x, y FROM t.
PlainSelect(limit_count) ==
    SelectStmt(<<>>, <<"x", "y">>, <<[type |-> "RelRangeVar", name |-> "t"]>>,
               limit_count, <<>>, "span_select")

\* A row source that carries a WITH clause of its own:
\* INSERT INTO t WITH w AS (...) SELECT x, y FROM w.
SelectWithCtes ==
    SelectStmt(<<>>, <<"x", "y">>, <<[type |-> "RelRangeVar", name |-> "w"]>>,
               "None", <<"w">>, "span_select")

ValuesSelect(rows) == SelectStmt(rows, <<>>, <<>>, "None", <<>>, "span_values")

(***************************************************************************)
(* context.Column and the columns of the modelled tables.                  *)
(***************************************************************************)
Column(name, hidden) == [name |-> name, hidden |-> hidden]

(***************************************************************************)
(* _preprocess_insert_value                                                *)
(***************************************************************************)
is_default(e) == e = "DEFAULT"

\* lines 666-672: the 0-based positions holding DEFAULT in some row, here 1-based.
default_columns(values) ==
    {i \in UNION {DOMAIN values[r] : r \in DOMAIN values} :
        \E r \in DOMAIN values : i \in DOMAIN values[r] /\ is_default(values[r][i])}

\* lines 680-692: the loop over the rows for one position to_remove; `values` is
\* the list object value_query.values, mutated row by row.
RECURSIVE remove_from_rows(_, _, _)
\* Mutant: line 692 left out, the shortened row is not stored.
remove_from_rows_not_stored(values, r_index, to_remove) ==
    IF r_index > Len(values) THEN [values |-> values, error |-> NoError]
    ELSE IF to_remove > Len(values[r_index])
    THEN [values |-> values, error |-> PyError("IndexError")]
    ELSE IF ~is_default(values[r_index][to_remove])
    THEN [values |-> values,
          error |-> QueryError(<<"DEFAULT keyword is supported only when used for a column in all rows">>,
                               "span_values", "ERROR_FEATURE_NOT_SUPPORTED")]
    ELSE remove_from_rows(values, r_index + 1, to_remove)

remove_from_rows(values, r_index, to_remove) ==
    IF r_index > Len(values) THEN [values |-> values, error |-> NoError]
    ELSE IF to_remove > Len(values[r_index])
    THEN [values |-> values, error |-> PyError("IndexError")]
    ELSE IF ~is_default(values[r_index][to_remove])
    THEN [values |-> values,
          error |-> QueryError(<<"DEFAULT keyword is supported only when used for a column in all rows">>,
                               "span_values", "ERROR_FEATURE_NOT_SUPPORTED")]
    ELSE remove_from_rows([values EXCEPT ![r_index] = RemoveAt(@, to_remove)],
                          r_index + 1, to_remove)

\* lines 677-692: the loop over sorted(default_columns, reverse=True).
RECURSIVE remove_defaults(_, _, _)
\* Mutant: line 678 left out, the expected column is not deleted.
remove_defaults_keeping_columns(expected_columns, values, todo) ==
    IF todo = {} THEN [columns |-> expected_columns, values |-> values, error |-> NoError]
    ELSE LET rows == remove_from_rows(values, 1, SetMax(todo))
         IN IF rows.error # NoError
            THEN [columns |-> expected_columns, values |-> rows.values,
                  error |-> rows.error]
            ELSE remove_defaults(expected_columns, rows.values, todo \ {SetMax(todo)})

remove_defaults(expected_columns, values, todo) ==
    IF todo = {} THEN [columns |-> expected_columns, values |-> values, error |-> NoError]
    ELSE LET to_remove == SetMax(todo) IN
         IF to_remove > Len(expected_columns)
         THEN [columns |-> expected_columns, values |-> values,
               error |-> PyError("IndexError")]
         ELSE LET rows == remove_from_rows(values, 1, to_remove)
              IN IF rows.error # NoError
                 THEN [columns |-> RemoveAt(expected_columns, to_remove),
                       values |-> rows.values, error |-> rows.error]
                 ELSE remove_defaults(RemoveAt(expected_columns, to_remove),
                                      rows.values, todo \ {to_remove})

\* Mutant: one NULL row whatever the number of rows.
EmptyRowsSelect_one_row(values) ==
    SelectStmt(<<>>, <<>>,
               <<[type |-> "RangeSubselect", alias |-> "_",
                  subquery |-> SelectStmt(<<<<"NULL">>>>,
                                          <<>>, <<>>, "None", <<>>, "none")]>>,
               "None", <<>>, "none")

\* lines 702-717: SELECT FROM (VALUES (NULL), ..., (NULL)) _
EmptyRowsSelect(values) ==
    SelectStmt(<<>>, <<>>,
               <<[type |-> "RangeSubselect", alias |-> "_",
                  subquery |-> SelectStmt([r \in 1..Len(values) |-> <<"NULL">>],
                                          <<>>, <<>>, "None", <<>>, "none")]>>,
               "None", <<>>, "none")

\* What _preprocess_insert_value returns (value_query, expected_columns) or
\* raises (error), and what its two argument objects, the query node and the
\* expected_columns list, hold afterwards (arg_query, arg_columns).
NormalizeResult(error, value_query, expected_columns, arg_query, arg_columns) ==
    [error |-> error, value_query |-> value_query,
     expected_columns |-> expected_columns,
     arg_query |-> arg_query, arg_columns |-> arg_columns]

\* lines 694-698: the first row is empty once the DEFAULTs are gone.
is_empty_rows(query) ==
    /\ query.type = "SelectStmt"
    /\ query.values # <<>>
    /\ Len(query.values[1]) = 0

\* lines 719-723, for the query object `mutated` that is returned as it is.
attach_ctes(mutated, value_ctes, columns) ==
    IF mutated.ctes # <<>>
    THEN NormalizeResult(PyError("AssertionError"), NoQuery, <<>>, mutated, columns)
    ELSE NormalizeResult(NoError, [mutated EXCEPT !.ctes = value_ctes], columns,
                         [mutated EXCEPT !.ctes = value_ctes], columns)

\* lines 694-723: `mutated` is the query node after the loops of lines 677-692.
rewrite_and_attach(mutated, value_ctes, columns) ==
    IF is_empty_rows(mutated)
    THEN NormalizeResult(NoError,
                         [EmptyRowsSelect(mutated.values) EXCEPT !.ctes = value_ctes],
                         columns, mutated, columns)
    ELSE attach_ctes(mutated, value_ctes, columns)

\* lines 660-723, given the outcome `removed` of the loops of lines 677-692.
normalize_values(value_query, value_ctes, removed) ==
    IF removed.error # NoError
    THEN NormalizeResult(removed.error, NoQuery, <<>>,
                         [value_query EXCEPT !.values = removed.values],
                         removed.columns)
    ELSE rewrite_and_attach([value_query EXCEPT !.values = removed.values],
                            value_ctes, removed.columns)

_preprocess_insert_value(value_query, value_ctes, expected_columns) ==
    IF value_query = NoQuery
    THEN \* lines 652-657
         NormalizeResult(NoError, SelectStmt(<<>>, <<>>, <<>>, "None", <<>>, "none"),
                         <<>>, value_query, expected_columns)
    ELSE IF value_query.type = "SelectStmt" /\ value_query.values # <<>>
    THEN normalize_values(value_query, value_ctes,
                          remove_defaults(expected_columns, value_query.values,
                                          default_columns(value_query.values)))
    ELSE attach_ctes(value_query, value_ctes, expected_columns)

NotRun == NormalizeResult(PyError("not run"), NoQuery, <<>>, NoQuery, <<>>)

(***************************************************************************)
(* The schema catalog and the table resolver, as far as this file reads    *)
(* them: three tables of the test schema, an object type, a multi link     *)
(* with a link property, and a multi property.                             *)
(***************************************************************************)
TableNames == {"Movie", "Movie.actors", "Movie.tags"}

\* ctx.schema.get_by_id(sub_table.schema_id)
get_by_id(schema_id) ==
    CASE schema_id = "Movie" ->
            [kind |-> "ObjectType", name |-> "default::Movie", shortname |-> "Movie",
             ptrs |-> {"id", "title", "director"},
             source |-> "none", target |-> "none", cardinality |-> "none"]
      [] schema_id = "Movie.actors" ->
            [kind |-> "Link", name |-> "default::Movie.actors", shortname |-> "actors",
             ptrs |-> {"source", "target", "role"},
             source |-> "default::Movie", target |-> "default::Person",
             cardinality |-> "Many"]
      [] schema_id = "Movie.tags" ->
            [kind |-> "Property", name |-> "default::Movie.tags", shortname |-> "tags",
             ptrs |-> {"source", "target"},
             source |-> "default::Movie", target |-> "std::str",
             cardinality |-> "Many"]

\* subject.maybe_get_ptr(ctx.schema, name): the pointer, or None.
maybe_get_ptr(subject, ptr_name) ==
    IF ptr_name \in subject.ptrs
    THEN [name |-> ptr_name,
          target |-> IF ptr_name = "director" THEN "default::Person" ELSE "std::scalar"]
    ELSE [name |-> "None", target |-> "None"]

\* The columns the table resolver gives each table; tableoid is a hidden
\* system column.
table_columns(name) ==
    CASE name = "Movie" ->
            <<Column("id", FALSE), Column("title", FALSE),
              Column("director_id", FALSE), Column("tableoid", TRUE)>>
      [] name = "Movie.actors" ->
            <<Column("source", FALSE), Column("target", FALSE),
              Column("role", FALSE), Column("tableoid", TRUE)>>
      [] name = "Movie.tags" ->
            <<Column("source", FALSE), Column("target", FALSE),
              Column("tableoid", TRUE)>>

\* pg_res_rel.resolve_relation / dispatch.resolve_relation on a table name:
\* the context.Table it returns.
resolve_table(name) ==
    [schema_id |-> name, name |-> name, columns |-> table_columns(name),
     alias |-> "None", reference_as |-> "None"]

NoTable ==
    [schema_id |-> "None", name |-> "None", columns |-> <<>>,
     alias |-> "None", reference_as |-> "None"]

\* A column name that no table has.
UnknownColumn == "nope"

ColumnNames(name) == {table_columns(name)[i].name : i \in DOMAIN table_columns(name)}

(***************************************************************************)
(* _pull_columns_from_table                                                *)
(***************************************************************************)
\* col_names is None (given = FALSE) or an iterable of (name, span) pairs.
NoColNames == [given |-> FALSE, names |-> <<>>, span |-> "none"]

ColNames(names, span) == [given |-> TRUE, names |-> names, span |-> span]

\* The callers' argument: ((c, span) for c in cols) if cols else None.
col_names_arg(cols, span) == IF cols # <<>> THEN ColNames(cols, span) ELSE NoColNames

\* lines 121-123: col_map.get(name): the last column of that name, or None.
col_map_get(columns, name) ==
    IF \E i \in DOMAIN columns : columns[i].name = name
    THEN columns[SetMax({i \in DOMAIN columns : columns[i].name = name})]
    ELSE Column("None", FALSE)

\* lines 125-134: the loop over the listed names, from the i-th on.
RECURSIVE pull_listed(_, _, _, _)
pull_listed(columns, col_names, i, res) ==
    IF i > Len(col_names.names) THEN [error |-> NoError, columns |-> res]
    ELSE LET col == col_map_get(columns, col_names.names[i]) IN
         IF col.name = "None"
         THEN [error |-> QueryError(<<"column", col_names.names[i], "does not exist">>,
                                    col_names.span, "default"),
               columns |-> <<>>]
         ELSE pull_listed(columns, col_names, i + 1, Append(res, col))

\* Mutant: the listed columns in the order of the table, not of the list.
_pull_columns_in_table_order(table, col_names) ==
    IF ~col_names.given
    THEN [error |-> NoError,
          columns |-> SelectSeq(table.columns, LAMBDA c : ~c.hidden)]
    ELSE [error |-> pull_listed(table.columns, col_names, 1, <<>>).error,
          columns |-> SelectSeq(table.columns,
                                LAMBDA c : \E i \in DOMAIN col_names.names :
                                               col_names.names[i] = c.name)]

_pull_columns_from_table(table, col_names) ==
    IF ~col_names.given
    THEN [error |-> NoError,
          columns |-> SelectSeq(table.columns, LAMBDA c : ~c.hidden)]
    ELSE pull_listed(table.columns, col_names, 1, <<>>)

(***************************************************************************)
(* _get_pointer_for_column                                                 *)
(***************************************************************************)
\* The stems a column name of the model can have in front of "_id".
Stems == {"", "director", "genre", "source", "target"}

\* col.name.endswith('_id')
endswith_id(name) == \E stem \in Stems : name = stem \o "_id"

\* col.name[0:-3], for a name that ends in _id
strip_id(name) == CHOOSE stem \in Stems : name = stem \o "_id"

\* Mutant: line 1122 left out, a pointer that is missing is returned.
_get_pointer_for_column_unasserted(col, subject) ==
    IF subject.kind \in {"Link", "Property"} /\ col.name \in {"source", "target"}
    THEN [error |-> NoError, ptr |-> [name |-> subject.shortname, target |-> subject.target],
          ptr_name |-> col.name, is_link |-> FALSE]
    ELSE [error |-> NoError,
          ptr |-> maybe_get_ptr(subject, IF endswith_id(col.name) THEN strip_id(col.name)
                                         ELSE col.name),
          ptr_name |-> IF endswith_id(col.name) THEN strip_id(col.name) ELSE col.name,
          is_link |-> endswith_id(col.name)]

_get_pointer_for_column(col, subject) ==
    IF subject.kind \in {"Link", "Property"} /\ col.name \in {"source", "target"}
    THEN [error |-> NoError, ptr |-> [name |-> subject.shortname, target |-> subject.target],
          ptr_name |-> col.name, is_link |-> FALSE]
    ELSE IF subject.kind = "Property"
    THEN [error |-> PyError("AssertionError"), ptr |-> [name |-> "None", target |-> "None"],
          ptr_name |-> "None", is_link |-> FALSE]
    ELSE LET is_link == endswith_id(col.name)
             ptr_name == IF is_link THEN strip_id(col.name) ELSE col.name
             ptr == maybe_get_ptr(subject, ptr_name)
         IN IF ptr.name = "None"
            THEN [error |-> PyError("AssertionError"), ptr |-> ptr,
                  ptr_name |-> "None", is_link |-> FALSE]
            ELSE [error |-> NoError, ptr |-> ptr, ptr_name |-> ptr_name,
                  is_link |-> is_link]

(***************************************************************************)
(* Python dicts (insertion-ordered) as sequences of key/value records.     *)
(***************************************************************************)
DictHas(d, k) == \E i \in DOMAIN d : d[i].key = k

DictGet(d, k) == d[CHOOSE i \in DOMAIN d : d[i].key = k].val

\* d[k] = v
DictSet(d, k, v) ==
    IF DictHas(d, k)
    THEN [i \in DOMAIN d |-> IF d[i].key = k THEN [key |-> k, val |-> v] ELSE d[i]]
    ELSE Append(d, [key |-> k, val |-> v])

DictKeys(d) == {d[i].key : i \in DOMAIN d}

(***************************************************************************)
(* ctx.alias_generator.get(prefix), as the n-th name handed out.           *)
(***************************************************************************)
alias_get(prefix, n) == prefix \o "~" \o ToString(n)

(***************************************************************************)
(* irast.PathId, as far as this file builds them: the derived type the     *)
(* path starts from, the pointers traversed, the namespace of the id and   *)
(* of its one-step-shorter prefix, and whether the id names the pointer    *)
(* itself (ptr_path) or its target (tgt_path).                             *)
(***************************************************************************)
PathId_from_type(typename) ==
    [typename |-> typename, steps |-> <<>>, namespace |-> {},
     prefix_namespace |-> {}, is_ptr |-> FALSE]

PathId_extend(path_id, ptr_name) ==
    [path_id EXCEPT !.steps = Append(@, ptr_name), !.is_ptr = FALSE,
                    !.prefix_namespace = path_id.namespace]

tgt_path(path_id) == [path_id EXCEPT !.is_ptr = FALSE]

ptr_path(path_id) == [path_id EXCEPT !.is_ptr = TRUE]

\* _get_ptr_id, lines 1126-1134
_get_ptr_id(source_id, ptr) == PathId_extend(source_id, ptr.name)

ColumnRef(name) == [type |-> "ColumnRef", name |-> name]

PathKey(path_id, aspect) == [path_id |-> path_id, aspect |-> aspect]

(***************************************************************************)
(* _has_at_most_one_row                                                    *)
(***************************************************************************)
\* Mutant: LIMIT is not looked at.
_has_one_values_row(query) ==
    /\ query.type = "SelectStmt"
    /\ query.values # <<>> /\ Len(query.values) = 1

_has_at_most_one_row(query) ==
    /\ query.type = "SelectStmt"
    /\ \/ (query.values # <<>> /\ Len(query.values) = 1)
       \/ query.limit_count = "1"

(***************************************************************************)
(* _construct_insert_element_for_ptr                                       *)
(***************************************************************************)
_construct_insert_element_for_ptr(source_ql, ptr_name, ptr, is_link) ==
    [expr |-> ptr_name,
     operation |-> "ASSIGN",
     compexpr |-> IF is_link
                  THEN [cast |-> ptr.target, steps |-> <<source_ql, ptr_name, "id">>]
                  ELSE [cast |-> "None", steps |-> <<source_ql, ptr_name>>]]

(***************************************************************************)
(* context.CompiledDML and PreprocessedDML                                 *)
(***************************************************************************)
CompiledDML(value_cte_name, value_relation_input, value_columns, value_iterator_name, output_ctes, output_relation_name, output_namespace) ==
    [value_cte_name |-> value_cte_name,
     value_relation_input |-> value_relation_input,
     value_columns |-> value_columns,
     value_iterator_name |-> value_iterator_name,
     output_ctes |-> output_ctes,
     output_relation_name |-> output_relation_name,
     output_namespace |-> output_namespace]

NoPreprocessedDML == [input |-> 0]

\* What a preprocessing function leaves behind when it raises `error`:
\* `alias` names handed out so far, `select_stmt` the state of the
\* statement's row-source node.
PreprocessRaised(error, alias, select_stmt) ==
    [error |-> error, pre |-> NoPreprocessedDML, alias |-> alias,
     select_stmt |-> select_stmt]

\* The outcome `res` of a preprocessing function, with what the list object it
\* was given as expected_columns holds afterwards.
WithColumns(res, expected_columns) ==
    [error |-> res.error, pre |-> res.pre, alias |-> res.alias,
     select_stmt |-> res.select_stmt, expected_columns |-> expected_columns]

\* The outcome of _preprocess_insert_stmt, with the list that
\* _pull_columns_from_table returned to it.
WithExpected(res, pulled_columns) ==
    [error |-> res.error, pre |-> res.pre, alias |-> res.alias,
     select_stmt |-> res.select_stmt, expected_columns |-> res.expected_columns,
     pulled_columns |-> pulled_columns]

(***************************************************************************)
(* _preprocess_insert_object_stmt                                          *)
(***************************************************************************)
\* lines 292-318: the loop over the expected columns, from the i-th on.
RECURSIVE object_columns_loop(_, _, _, _, _, _)
object_columns_loop(expected_columns, i, sub, value_id, value_ql, acc) ==
    IF i > Len(expected_columns) THEN acc
    ELSE LET got == _get_pointer_for_column(expected_columns[i], sub) IN
         IF got.error # NoError THEN [acc EXCEPT !.error = got.error]
         ELSE LET ptr_id == _get_ptr_id(value_id, got.ptr)
                  output_var == ColumnRef(got.ptr_name)
                  outs1 == IF got.is_link
                           THEN DictSet(acc.path_outputs, PathKey(ptr_id, "identity"),
                                        output_var)
                           ELSE acc.path_outputs
                  outs2 == DictSet(outs1, PathKey(ptr_id, "value"), output_var)
              IN object_columns_loop(
                    expected_columns, i + 1, sub, value_id, value_ql,
                    [error |-> NoError,
                     value_columns |-> Append(acc.value_columns,
                                              <<got.ptr_name, got.is_link>>),
                     path_outputs |-> outs2,
                     insert_shape |-> Append(acc.insert_shape,
                         _construct_insert_element_for_ptr(
                             value_ql, got.ptr_name, got.ptr, got.is_link))])

\* lines 343-355: the returning shape, over the table's columns from the i-th on.
RECURSIVE object_returning_shape(_, _, _, _)
object_returning_shape(columns, i, sub, acc) ==
    IF i > Len(columns) THEN [error |-> NoError, shape |-> acc]
    ELSE IF columns[i].hidden THEN object_returning_shape(columns, i + 1, sub, acc)
    ELSE LET got == _get_pointer_for_column(columns[i], sub) IN
         IF got.error # NoError THEN [error |-> got.error, shape |-> acc]
         ELSE object_returning_shape(columns, i + 1, sub,
                  Append(acc, [expr |-> got.ptr_name, compexpr |-> "None"]))

\* The names the alias generator hands out while one statement is
\* preprocessed; `alias` counts the names handed out before.
value_name(alias) == alias_get("ins_val", alias + 1)

iterator_name(alias) == alias_get("ins_iter", alias + 2)

value_cte_name(alias) == alias_get("ins_value", alias + 3)

value_iterator(alias) == alias_get("iter", alias + 4)

\* lines 282-286 and 466-470: the EdgeQL expression for a row of the value
\* relation.
value_ql(select_stmt, alias) ==
    IF _has_at_most_one_row(select_stmt)
    THEN [type |-> "IRAnchor", name |-> value_name(alias)]
    ELSE [type |-> "ObjectRef", name |-> iterator_name(alias)]

\* lines 334-341 and 580-587: FOR over the value relation unless it has at
\* most one row.
for_each_value(select_stmt, alias, ql_stmt) ==
    IF _has_at_most_one_row(select_stmt) THEN ql_stmt
    ELSE [type |-> "ForQuery",
          iterator |-> [type |-> "IRAnchor", name |-> value_name(alias)],
          iterator_alias |-> iterator_name(alias),
          result |-> ql_stmt]

\* The PreprocessedDML a preprocessing function returns.
PreprocessedDML(stmt, alias, norm, value_columns, path_outputs, anchor_id, ql_stmt, ql_returning_shape) ==
    [error |-> NoError,
     alias |-> alias + 4,
     select_stmt |-> norm.arg_query,
     pre |-> [input |-> stmt.id,
              ql_stmt |-> for_each_value(norm.arg_query, alias, ql_stmt),
              ql_returning_shape |-> ql_returning_shape,
              ql_singletons |-> {anchor_id},
              ql_anchors |-> <<[key |-> value_name(alias), val |-> anchor_id]>>,
              external_rels |->
                  <<[key |-> anchor_id,
                     val |-> [rel |-> [type |-> "Relation",
                                       name |-> value_cte_name(alias),
                                       path_outputs |-> path_outputs],
                              aspects |-> <<"source", "identity">>]]>>,
              subject_columns |-> <<>>,
              early_result |->
                  CompiledDML(value_cte_name(alias), norm.value_query,
                              value_columns, value_iterator(alias),
                              <<>>, "", <<>>)]]

object_value_id(alias) == PathId_from_type(<<"__derived__", value_name(alias)>>)

\* lines 320-376, given the outcome of the returning shape of lines 343-355.
object_finish(stmt, sub, alias, norm, cols, returning) ==
    IF returning.error # NoError
    THEN PreprocessRaised(returning.error, alias + 4, norm.arg_query)
    ELSE PreprocessedDML(
            stmt, alias, norm, cols.value_columns,
            DictSet(DictSet(cols.path_outputs,
                            PathKey(object_value_id(alias), "iterator"),
                            ColumnRef(value_iterator(alias))),
                    PathKey(object_value_id(alias), "value"),
                    ColumnRef(value_iterator(alias))),
            object_value_id(alias),
            [type |-> "InsertQuery", subject |-> sub.name,
             shape |-> cols.insert_shape],
            returning.shape)

\* lines 320-376, given the outcome `cols` of the loop of lines 292-318.
object_after_columns(stmt, sub, sub_table, alias, norm, cols) ==
    IF cols.error # NoError
    THEN PreprocessRaised(cols.error, alias + 3, norm.arg_query)
    ELSE object_finish(stmt, sub, alias, norm, cols,
                       IF stmt.returning_list # <<>>
                       THEN object_returning_shape(sub_table.columns, 1, sub, <<>>)
                       ELSE [error |-> NoError, shape |-> <<>>])

\* lines 262-376, given the outcome `norm` of _preprocess_insert_value;
\* norm.arg_query is stmt.select_stmt, the node the normalizer was given.
object_from_value(stmt, sub, sub_table, alias, norm) ==
    IF norm.error # NoError
    THEN PreprocessRaised(norm.error, alias, norm.arg_query)
    ELSE object_after_columns(
            stmt, sub, sub_table, alias, norm,
            object_columns_loop(
                norm.expected_columns, 1, sub, object_value_id(alias),
                value_ql(norm.arg_query, alias),
                [error |-> NoError, value_columns |-> <<>>, path_outputs |-> <<>>,
                 insert_shape |-> <<>>]))

\* The same, with the state of the expected_columns list the normalizer was
\* given.
object_after_value(stmt, sub, sub_table, alias, norm) ==
    WithColumns(
        object_from_value(stmt, sub, sub_table, alias, norm), norm.arg_columns)

_preprocess_insert_object_stmt(stmt, sub, sub_table, expected_columns0, alias) ==
    object_after_value(
        stmt, sub, sub_table, alias,
        _preprocess_insert_value(stmt.select_stmt, stmt.ctes, expected_columns0))

(***************************************************************************)
(* _preprocess_insert_pointer_stmt                                         *)
(***************************************************************************)
HasColumn(columns, name) == \E i \in DOMAIN columns : columns[i].name = name

\* lines 476-506: the loop over the expected columns, from the i-th on.
RECURSIVE pointer_columns_loop(_, _, _, _, _, _)
pointer_columns_loop(expected_columns, i, sub, source_id, value_id, acc) ==
    IF i > Len(expected_columns) THEN acc
    ELSE LET name == expected_columns[i].name
             var == ColumnRef(name)
         IN IF name = "source"
            THEN pointer_columns_loop(expected_columns, i + 1, sub, source_id, value_id,
                    [error |-> NoError,
                     value_columns |-> Append(acc.value_columns, <<"source", TRUE>>),
                     path_outputs |->
                         DictSet(DictSet(acc.path_outputs,
                                         PathKey(source_id, "value"), var),
                                 PathKey(source_id, "identity"), var)])
            ELSE IF name = "target"
            THEN pointer_columns_loop(expected_columns, i + 1, sub, source_id, value_id,
                    [error |-> NoError,
                     value_columns |-> Append(acc.value_columns,
                                              <<"target", sub.kind = "Link">>),
                     path_outputs |->
                         DictSet(DictSet(acc.path_outputs,
                                         PathKey(tgt_path(value_id), "value"), var),
                                 PathKey(tgt_path(value_id), "identity"), var)])
            ELSE IF sub.kind # "Link" \/ maybe_get_ptr(sub, name).name = "None"
            THEN [acc EXCEPT !.error = PyError("AssertionError")]
            ELSE pointer_columns_loop(expected_columns, i + 1, sub, source_id, value_id,
                    [error |-> NoError,
                     value_columns |-> Append(acc.value_columns, <<name, FALSE>>),
                     path_outputs |->
                         DictSet(acc.path_outputs,
                                 PathKey(_get_ptr_id(ptr_path(value_id),
                                                     maybe_get_ptr(sub, name)),
                                         "value"),
                                 var)])

\* Mutant: source and target are not skipped.
pointer_returning_shape_all(columns, sub) ==
    [i \in DOMAIN SelectSeq(columns, LAMBDA c : ~c.hidden) |->
        [expr |-> SelectSeq(columns, LAMBDA c : ~c.hidden)[i].name,
         compexpr |-> <<sub.shortname, SelectSeq(columns, LAMBDA c : ~c.hidden)[i].name>>]]

\* lines 590-612: the returning shape: the visible columns but source and target.
pointer_returning_shape(columns, sub) ==
    LET kept == SelectSeq(columns,
                          LAMBDA c : ~c.hidden /\ c.name \notin {"source", "target"})
    IN [i \in DOMAIN kept |->
            [expr |-> kept[i].name,
             compexpr |-> <<sub.shortname, kept[i].name>>]]

pointer_source_id(alias) == PathId_from_type(<<"__derived__", value_name(alias)>>)

pointer_value_id(sub, alias) == PathId_extend(pointer_source_id(alias), sub.shortname)

\* lines 526-556: the link's target with its properties, or the property's value.
ql_ptr_val(sub, source_ql, props) ==
    IF sub.kind = "Link"
    THEN [type |-> "Shape",
          cast |-> sub.target,
          steps |-> <<source_ql, sub.shortname>>,
          elements |-> [i \in DOMAIN props |->
                           [expr |-> props[i][1],
                            compexpr |-> <<source_ql, sub.shortname, props[i][1]>>]]]
    ELSE [type |-> "Path", cast |-> "None",
          steps |-> <<source_ql, sub.shortname>>, elements |-> <<>>]

\* lines 558-579: UPDATE of the source object that assigns or appends the pointer.
pointer_update(sub, source_ql, value_columns) ==
    [type |-> "UpdateQuery", subject |-> sub.source,
     where |-> [left |-> sub.source, op |-> "=", right |-> source_ql],
     shape |-> <<[expr |-> sub.shortname,
                  operation |-> IF sub.cardinality = "Many"
                                THEN "APPEND" ELSE "ASSIGN",
                  compexpr |->
                      ql_ptr_val(sub, source_ql,
                                 SelectSeq(value_columns,
                                           LAMBDA c : c[1] \notin {"source", "target"}))]>>]

\* lines 508-633, given the outcome `cols` of the loop of lines 476-506.
pointer_after_columns(stmt, sub, sub_table, alias, norm, cols) ==
    IF cols.error # NoError
    THEN PreprocessRaised(cols.error, alias + 3, norm.arg_query)
    ELSE PreprocessedDML(
            stmt, alias, norm, cols.value_columns,
            DictSet(DictSet(cols.path_outputs,
                            PathKey(pointer_source_id(alias), "iterator"),
                            ColumnRef(value_iterator(alias))),
                    PathKey(pointer_value_id(sub, alias), "iterator"),
                    ColumnRef(value_iterator(alias))),
            pointer_source_id(alias),
            pointer_update(sub, value_ql(norm.arg_query, alias), cols.value_columns),
            IF stmt.returning_list # <<>>
            THEN pointer_returning_shape(sub_table.columns, sub)
            ELSE <<>>)

\* lines 438-633, given the outcome `norm` of _preprocess_insert_value.
pointer_from_value(stmt, sub, sub_table, alias, norm) ==
    IF norm.error # NoError
    THEN PreprocessRaised(norm.error, alias, norm.arg_query)
    ELSE pointer_after_columns(
            stmt, sub, sub_table, alias, norm,
            pointer_columns_loop(
                norm.expected_columns, 1, sub, pointer_source_id(alias),
                pointer_value_id(sub, alias),
                [error |-> NoError, value_columns |-> <<>>, path_outputs |-> <<>>]))

\* The same, with the state of the expected_columns list the normalizer was
\* given.
pointer_after_value(stmt, sub, sub_table, alias, norm) ==
    WithColumns(
        pointer_from_value(stmt, sub, sub_table, alias, norm), norm.arg_columns)

\* lines 427-436: both ends of the link are required.
\* Mutant: only target is required.
missing_link_column_target_only(expected_columns) ==
    IF ~HasColumn(expected_columns, "target") THEN "target" ELSE "None"

missing_link_column(expected_columns) ==
    IF ~HasColumn(expected_columns, "source") THEN "source"
    ELSE IF ~HasColumn(expected_columns, "target") THEN "target"
    ELSE "None"

_preprocess_insert_pointer_stmt(stmt, sub, sub_table, expected_columns0, alias) ==
    IF missing_link_column(expected_columns0) # "None"
    THEN WithColumns(
            PreprocessRaised(
                QueryError(<<"column", missing_link_column(expected_columns0),
                             "is required when inserting into link tables">>,
                           stmt.span, "default"),
                alias, stmt.select_stmt),
            expected_columns0)
    ELSE pointer_after_value(
            stmt, sub, sub_table, alias,
            _preprocess_insert_value(stmt.select_stmt, stmt.ctes, expected_columns0))

(***************************************************************************)
(* _preprocess_insert_stmt                                                 *)
(***************************************************************************)
InsertStmt(id, relation, cols, select_stmt, ctes, returning_list) ==
    [type |-> "InsertStmt", id |-> id, relation |-> relation, cols |-> cols,
     select_stmt |-> select_stmt, ctes |-> ctes, returning_list |-> returning_list,
     span |-> "span~" \o ToString(id)]

\* lines 237-247: the (column, pointer) pairs RETURNING can use, from the i-th
\* column of the table on.
RECURSIVE subject_columns_loop(_, _, _, _)
subject_columns_loop(columns, i, sub, acc) ==
    IF i > Len(columns) THEN [error |-> NoError, subject_columns |-> acc]
    ELSE IF columns[i].hidden THEN subject_columns_loop(columns, i + 1, sub, acc)
    ELSE LET got == _get_pointer_for_column(columns[i], sub) IN
         IF got.error # NoError THEN [error |-> got.error, subject_columns |-> acc]
         ELSE subject_columns_loop(columns, i + 1, sub,
                                   Append(acc, <<columns[i].name, got.ptr_name>>))

\* lines 237-248, given the preprocessed statement `res`.
insert_with_subject(res, pulled_columns, subject) ==
    IF subject.error # NoError
    THEN WithExpected(
            WithColumns(PreprocessRaised(subject.error, res.alias, res.select_stmt),
                        res.expected_columns),
            pulled_columns)
    ELSE WithExpected([res EXCEPT !.pre.subject_columns = subject.subject_columns],
                      pulled_columns)

\* lines 237-248, given the outcome `res` of the function for the subject's kind.
insert_after_kind(stmt, sub, sub_table, expected_columns, res) ==
    IF res.error # NoError THEN WithExpected(res, expected_columns)
    ELSE insert_with_subject(
            res, expected_columns,
            IF stmt.returning_list # <<>>
            THEN subject_columns_loop(sub_table.columns, 1, sub, <<>>)
            ELSE [error |-> NoError, subject_columns |-> <<>>])

\* lines 225-248, given the outcome `expected` of _pull_columns_from_table.
insert_after_columns(stmt, alias, sub, sub_table, expected) ==
    IF expected.error # NoError
    THEN WithExpected(
            WithColumns(PreprocessRaised(expected.error, alias, stmt.select_stmt),
                        <<>>),
            <<>>)
    ELSE insert_after_kind(
            stmt, sub, sub_table, expected.columns,
            IF sub.kind = "ObjectType"
            THEN _preprocess_insert_object_stmt(stmt, sub, sub_table,
                                                expected.columns, alias)
            ELSE _preprocess_insert_pointer_stmt(stmt, sub, sub_table,
                                                 expected.columns, alias))

\* lines 217-248, given the table the statement's relation resolves to.
insert_into_table(stmt, alias, sub_table) ==
    insert_after_columns(
        stmt, alias, get_by_id(sub_table.schema_id), sub_table,
        _pull_columns_from_table(sub_table, col_names_arg(stmt.cols, stmt.span)))

_preprocess_insert_stmt(stmt, alias) ==
    insert_into_table(stmt, alias, resolve_table(stmt.relation))

(***************************************************************************)
(* resolve_CopyStmt                                                        *)
(***************************************************************************)
CopyStmt(query, relation, colnames, where_clause) ==
    [type |-> "CopyStmt", query |-> query, relation |-> relation,
     colnames |-> colnames, where_clause |-> where_clause,
     is_from |-> FALSE, is_program |-> FALSE, filename |-> "None",
     options |-> <<"csv">>, span |-> "span_copy"]

\* pg_res_expr.resolve_column_kind(table, c.kind): the column, qualified by the
\* name the table is referenced as.
resolve_column_kind(table, col) ==
    [type |-> "ColumnRef", name |-> <<table.reference_as, col.name>>]

\* lines 67-90, for the table with its new reference name and the outcome
\* `selected` of _pull_columns_from_table.
copy_select(stmt, alias, table, selected) ==
    [error |-> selected.error,
     table |-> table,
     alias |-> alias + 1,
     query |-> IF selected.error # NoError THEN NoQuery
               ELSE SelectStmt(
                      <<>>,
                      [i \in DOMAIN selected.columns |->
                          resolve_column_kind(table, selected.columns[i])],
                      <<[type |-> "RelRangeVar", alias |-> table.reference_as,
                         relation |-> stmt.relation]>>,
                      "None", <<>>, "none")]

\* lines 65-90, for the table object the relation resolves to.
copy_table(stmt, alias, table) ==
    copy_select(stmt, alias, table,
                _pull_columns_from_table(table,
                                         col_names_arg(stmt.colnames, stmt.span)))

\* lines 63-90: the SELECT that wraps the table a COPY names.  `alias` counts
\* the names the alias generator has handed out.
copy_relation_query(stmt, alias) ==
    copy_table(stmt, alias,
               [resolve_table(stmt.relation) EXCEPT
                    !.reference_as = alias_get("rel", alias + 1)])

\* Mutant: the statement's own relation, column list and options stay.
copy_finish_in_place(stmt, query, ctes_buffer) ==
    [stmt EXCEPT !.query = [query EXCEPT !.ctes = ctes_buffer], !.span = "none",
                 !.is_program = FALSE]

\* lines 94-111: the CTEs buffered so far become the query's CTE list.
copy_finish(stmt, query, ctes_buffer) ==
    [type |-> "CopyStmt", relation |-> "None", colnames |-> <<>>,
     query |-> [query EXCEPT !.ctes = ctes_buffer],
     is_from |-> stmt.is_from, is_program |-> stmt.is_program,
     filename |-> stmt.filename, options |-> stmt.options,
     where_clause |-> stmt.where_clause, span |-> "none"]

\* The whole handler.  ctx holds the alias counter and the CTE buffer;
\* resolved_query is what dispatch.resolve returns for stmt.query, pushed and
\* where_pushed are the CTEs that resolving the query or relation, and then the
\* WHERE clause, append to the buffer.
\* lines 63-111, given the outcome `wrapped` of lines 63-90.
\* Mutant: the buffer is taken over before the WHERE clause is resolved.
copy_relation_before_where(stmt, ctx, wrapped, pushed, where_pushed) ==
    IF wrapped.error # NoError
    THEN [error |-> wrapped.error, ret |-> NoQuery,
          ctx |-> [ctx EXCEPT !.alias = wrapped.alias,
                              !.ctes_buffer = @ \o pushed],
          table |-> wrapped.table]
    ELSE [error |-> NoError,
          ret |-> copy_finish(stmt, wrapped.query, ctx.ctes_buffer \o pushed),
          ctx |-> [ctx EXCEPT !.alias = wrapped.alias, !.ctes_buffer = where_pushed],
          table |-> wrapped.table]

copy_relation(stmt, ctx, wrapped, pushed, where_pushed) ==
    IF wrapped.error # NoError
    THEN [error |-> wrapped.error, ret |-> NoQuery,
          ctx |-> [ctx EXCEPT !.alias = wrapped.alias,
                              !.ctes_buffer = @ \o pushed],
          table |-> wrapped.table]
    ELSE [error |-> NoError,
          ret |-> copy_finish(stmt, wrapped.query,
                              ctx.ctes_buffer \o pushed \o where_pushed),
          ctx |-> [ctx EXCEPT !.alias = wrapped.alias, !.ctes_buffer = <<>>],
          table |-> wrapped.table]

resolve_CopyStmt(stmt, ctx, resolved_query, pushed, where_pushed) ==
    IF stmt.query # NoQuery
    THEN [error |-> NoError,
          ret |-> copy_finish(stmt, resolved_query,
                              ctx.ctes_buffer \o pushed \o where_pushed),
          ctx |-> [ctx EXCEPT !.ctes_buffer = <<>>],
          table |-> NoTable]
    ELSE IF stmt.relation # "None"
    THEN copy_relation(stmt, ctx, copy_relation_query(stmt, ctx.alias),
                       pushed, where_pushed)
    ELSE [error |-> PyError("AssertionError"), ret |-> NoQuery, ctx |-> ctx,
          table |-> NoTable]

(***************************************************************************)
(* compile_dml and _collect_dml_stmts                                      *)
(***************************************************************************)
\* pgast.Query is the class of SELECT, INSERT, UPDATE and DELETE nodes; a COPY
\* statement is not one.
QueryTypes == {"SelectStmt", "InsertStmt", "UpdateStmt", "DeleteStmt"}

CommonTableExpr(name, query) ==
    [type |-> "CommonTableExpr", name |-> name, query |-> query]

\* lines 161-164: the INSERTs of the statement's own WITH list, in order.
cte_inserts(ctes) ==
    [i \in DOMAIN SelectSeq(ctes, LAMBDA cte : cte.query.type = "InsertStmt") |->
        SelectSeq(ctes, LAMBDA cte : cte.query.type = "InsertStmt")[i].query]

_collect_dml_stmts(stmt) ==
    IF stmt.type \notin QueryTypes THEN <<>>
    ELSE cte_inserts(stmt.ctes)
            \o (IF stmt.type = "InsertStmt" THEN <<stmt>> ELSE <<>>)

\* Mutant: an empty batch is compiled like any other.
nothing_collected_never(dml_stmts_sql) == FALSE

\* line 142: nothing to compile.
nothing_collected(dml_stmts_sql) == Len(dml_stmts_sql) = 0

\* line 146: the list comprehension, from the i-th statement on.  `nodes` are
\* the statement nodes as preprocessing leaves them, `failed` the index of the
\* statement whose preprocessing raised.
RECURSIVE preprocess_from(_, _, _, _, _)
preprocess_step(dml_stmts_sql, i, stmts, nodes, res) ==
    IF res.error # NoError
    THEN [error |-> res.error, stmts |-> stmts, alias |-> res.alias, failed |-> i,
          nodes |-> Append(nodes, [dml_stmts_sql[i] EXCEPT
                                       !.select_stmt = res.select_stmt])]
    ELSE preprocess_from(dml_stmts_sql, i + 1, res.alias, Append(stmts, res.pre),
                         Append(nodes, [dml_stmts_sql[i] EXCEPT
                                            !.select_stmt = res.select_stmt]))

preprocess_from(dml_stmts_sql, i, alias, stmts, nodes) ==
    IF i > Len(dml_stmts_sql)
    THEN [error |-> NoError, stmts |-> stmts, alias |-> alias, failed |-> 0,
          nodes |-> nodes]
    ELSE preprocess_step(dml_stmts_sql, i, stmts, nodes,
                         _preprocess_insert_stmt(dml_stmts_sql[i], alias))

(***************************************************************************)
(* _compile_preprocessed_dml: the merged statement                         *)
(***************************************************************************)
\* line 757: f'dml_{index}', index counted from 0.
dml_name(index) == "dml_" \o ToString(index)

RECURSIVE merge_anchors(_, _, _)
\* lines 746-750: anchors.update(stmt.ql_anchors), from the i-th statement on.
merge_anchors(stmts, i, anchors) ==
    IF i > Len(stmts) THEN anchors
    ELSE merge_anchors(stmts, i + 1,
                       DictSet(anchors, stmts[i].ql_anchors[1].key,
                               stmts[i].ql_anchors[1].val))

\* lines 746-777: the merged statement and the compiler options.
merged_ql_stmt(stmts) ==
    [type |-> "SelectQuery",
     aliases |-> [i \in DOMAIN stmts |->
                     [alias |-> dml_name(i - 1),
                      expr |-> [type |-> "DetachedExpr", expr |-> stmts[i].ql_stmt]]],
     shape |-> [i \in DOMAIN stmts |->
                   [expr |-> dml_name(i - 1),
                    compexpr |-> [expr |-> dml_name(i - 1),
                                  elements |-> stmts[i].ql_returning_shape]]],
     singletons |-> UNION {stmts[i].ql_singletons : i \in DOMAIN stmts},
     anchors |-> merge_anchors(stmts, 1, <<>>)]

\* The mutating statement the compiler makes of the binding dml_{index}, and
\* the marker of a CTE that belongs to no statement.
MutatingStmt(index) ==
    [type |-> "MutatingStmt", name |-> dml_name(index),
     namespace |-> {"ns~" \o ToString(index)}]

NoMutatingStmt == [type |-> "None", name |-> "", namespace |-> {}]

\* What compile_ast_to_ir returns: one shape element per binding of the merged
\* statement, each holding its mutating statement.
ir_statement(ql_stmt) ==
    [shape |-> [i \in DOMAIN ql_stmt.shape |->
                   [name |-> ql_stmt.shape[i].expr, expr |-> MutatingStmt(i - 1)]]]

(***************************************************************************)
(* _merge_and_prepare_external_rels                                        *)
(***************************************************************************)
\* lines 890-895 and 903: shape_elements_by_name[name], the last element of
\* that name.
shape_element(ir_stmt, name) ==
    ir_stmt.shape[SetMax({i \in DOMAIN ir_stmt.shape : ir_stmt.shape[i].name = name})].expr

\* lines 922-923: the id in the statement's namespace, the namespace of its
\* one-step-shorter prefix cleared.
in_namespace(out_id, subject_namespace) ==
    [out_id EXCEPT !.namespace = subject_namespace, !.prefix_namespace = {}]

\* lines 919-924: the loop over list(rel.path_outputs.items()), from the i-th
\* of the `items` on; path_outputs is the dict of the relation, written to.
RECURSIVE rekey_outputs(_, _, _, _)
rekey_outputs(items, i, subject_namespace, path_outputs) ==
    IF i > Len(items) THEN path_outputs
    ELSE rekey_outputs(items, i + 1, subject_namespace,
                       DictSet(path_outputs,
                               PathKey(in_namespace(items[i].key.path_id,
                                                    subject_namespace),
                                       items[i].key.aspect),
                               items[i].val))

\* lines 914-925, for the one external relation of a statement.
prepared_rel(external_rel, subject_namespace) ==
    [key |-> external_rel.key,
     val |-> [rel |-> [external_rel.val.rel EXCEPT
                          !.path_outputs = rekey_outputs(@, 1, subject_namespace, @)],
              aspects |-> external_rel.val.aspects]]

\* Mutant: every relation gets the namespace of the first binding.
_merge_with_first_namespace(ir_stmt, stmts, stmt_names) ==
    [ir_stmts |-> [i \in DOMAIN stmts |-> shape_element(ir_stmt, stmt_names[i])],
     external_rels |->
         [i \in DOMAIN stmts |->
             prepared_rel(stmts[i].external_rels[1],
                          shape_element(ir_stmt, stmt_names[1]).namespace)]]

\* lines 868-926
_merge_and_prepare_external_rels(ir_stmt, stmts, stmt_names) ==
    [ir_stmts |-> [i \in DOMAIN stmts |-> shape_element(ir_stmt, stmt_names[i])],
     external_rels |->
         [i \in DOMAIN stmts |->
             prepared_rel(stmts[i].external_rels[1],
                          shape_element(ir_stmt, stmt_names[i]).namespace)]]

(***************************************************************************)
(* _compile_preprocessed_dml: the partition of the compiler's CTEs         *)
(***************************************************************************)
\* lines 819-827: the while loop for one statement; `ctes` is what is left of
\* the compiler's list, stmt_ctes the group so far.
RECURSIVE take_group(_, _, _, _)
\* Mutant: the CTE that ends a group is popped and lost.
take_group_dropping(ctes, ir_mutating_stmt, found_it, stmt_ctes) ==
    IF Len(ctes) = 0 THEN [stmt_ctes |-> stmt_ctes, ctes |-> ctes]
    ELSE IF ctes[1].for_dml_stmt # ir_mutating_stmt /\ found_it
    THEN [stmt_ctes |-> stmt_ctes, ctes |-> Tail(ctes)]
    ELSE take_group(Tail(ctes), ir_mutating_stmt,
                    found_it \/ ctes[1].for_dml_stmt = ir_mutating_stmt,
                    Append(stmt_ctes, ctes[1]))

\* Mutant: only a CTE marked for another statement ends the group.
take_group_past_unmarked(ctes, ir_mutating_stmt, found_it, stmt_ctes) ==
    IF Len(ctes) = 0 THEN [stmt_ctes |-> stmt_ctes, ctes |-> ctes]
    ELSE IF /\ ctes[1].for_dml_stmt # ir_mutating_stmt
            /\ ctes[1].for_dml_stmt # NoMutatingStmt
            /\ found_it
    THEN [stmt_ctes |-> stmt_ctes, ctes |-> ctes]
    ELSE take_group(Tail(ctes), ir_mutating_stmt,
                    found_it \/ ctes[1].for_dml_stmt = ir_mutating_stmt,
                    Append(stmt_ctes, ctes[1]))

take_group(ctes, ir_mutating_stmt, found_it, stmt_ctes) ==
    IF Len(ctes) = 0 THEN [stmt_ctes |-> stmt_ctes, ctes |-> ctes]
    ELSE IF ctes[1].for_dml_stmt # ir_mutating_stmt /\ found_it
    THEN [stmt_ctes |-> stmt_ctes, ctes |-> ctes]
    ELSE take_group(Tail(ctes), ir_mutating_stmt,
                    found_it \/ ctes[1].for_dml_stmt = ir_mutating_stmt,
                    Append(stmt_ctes, ctes[1]))

\* lines 834-838: the key of ptr_map for a path id.
ptr_map_name(ptr_id) ==
    IF ptr_id.steps = <<>> THEN "id" ELSE ptr_id.steps[Len(ptr_id.steps)]

\* lines 832-838: ptr_map, from the i-th item of last_query.path_outputs on.
RECURSIVE ptr_map_from(_, _, _)
ptr_map_from(path_outputs, i, ptr_map) ==
    IF i > Len(path_outputs) THEN ptr_map
    ELSE ptr_map_from(path_outputs, i + 1,
                      DictSet(ptr_map,
                              <<ptr_map_name(path_outputs[i].key.path_id),
                                path_outputs[i].key.aspect>>,
                              path_outputs[i].val))

NoExpr == [type |-> "None", name |-> ""]

\* ptr_map.get(key, None)
ptr_map_get(ptr_map, key) == IF DictHas(ptr_map, key) THEN DictGet(ptr_map, key) ELSE NoExpr

\* Mutant: the plain column reference only when no aspect is there.
output_expr_falling_back(ptr_map, ptr_name) ==
    IF ptr_map_get(ptr_map, <<ptr_name, "serialized">>) # NoExpr
    THEN ptr_map_get(ptr_map, <<ptr_name, "serialized">>)
    ELSE IF ptr_map_get(ptr_map, <<ptr_name, "value">>) # NoExpr
    THEN ptr_map_get(ptr_map, <<ptr_name, "value">>)
    ELSE IF ptr_map_get(ptr_map, <<ptr_name, "identity">>) # NoExpr
    THEN ptr_map_get(ptr_map, <<ptr_name, "identity">>)
    ELSE IF ptr_name \in {"source", "target"} THEN ColumnRef(ptr_name)
    ELSE NoExpr

\* lines 841-847: the expression of one subject column.
output_expr(ptr_map, ptr_name) ==
    IF ptr_name \in {"source", "target"} THEN ColumnRef(ptr_name)
    ELSE IF ptr_map_get(ptr_map, <<ptr_name, "serialized">>) # NoExpr
    THEN ptr_map_get(ptr_map, <<ptr_name, "serialized">>)
    ELSE IF ptr_map_get(ptr_map, <<ptr_name, "value">>) # NoExpr
    THEN ptr_map_get(ptr_map, <<ptr_name, "value">>)
    ELSE ptr_map_get(ptr_map, <<ptr_name, "identity">>)

\* lines 839-849: output_namespace, from the i-th subject column on.
RECURSIVE output_namespace_from(_, _, _, _)
output_namespace_from(subject_columns, i, ptr_map, output_namespace) ==
    IF i > Len(subject_columns)
    THEN [error |-> NoError, output_namespace |-> output_namespace]
    ELSE IF output_expr(ptr_map, subject_columns[i][2]) = NoExpr
    THEN [error |-> PyError("AssertionError"), output_namespace |-> output_namespace]
    ELSE output_namespace_from(
            subject_columns, i + 1, ptr_map,
            DictSet(output_namespace, subject_columns[i][1],
                    output_expr(ptr_map, subject_columns[i][2])))

\* What is left of _compile_preprocessed_dml when it raises or returns:
\* the mapping built so far and what is left of the compiler's CTE list.
Partitioned(error, result, ctes) == [error |-> error, result |-> result, ctes |-> ctes]

RECURSIVE partition_from(_, _, _, _, _)
\* lines 851-859, given the outcome of the loop of lines 839-849.
partition_store(stmts, ir_stmts, i, group, result, namespace) ==
    IF namespace.error # NoError THEN Partitioned(namespace.error, result, group.ctes)
    ELSE partition_from(
            stmts, ir_stmts, i + 1, group.ctes,
            DictSet(result, stmts[i].input,
                    CompiledDML(stmts[i].early_result.value_cte_name,
                                stmts[i].early_result.value_relation_input,
                                stmts[i].early_result.value_columns,
                                stmts[i].early_result.value_iterator_name,
                                group.stmt_ctes,
                                group.stmt_ctes[Len(group.stmt_ctes)].name,
                                namespace.output_namespace)))

\* lines 829-859, given the group the while loop collected.
partition_group(stmts, ir_stmts, i, group, result) ==
    IF Len(group.stmt_ctes) = 0
    THEN \* stmt_ctes[-1] of an empty list
         Partitioned(PyError("IndexError"), result, group.ctes)
    ELSE partition_store(
            stmts, ir_stmts, i, group, result,
            output_namespace_from(
                stmts[i].subject_columns, 1,
                ptr_map_from(group.stmt_ctes[Len(group.stmt_ctes)].query.path_outputs,
                             1, <<>>),
                <<>>))

\* lines 816-859: the loop over zip(stmts, ir_stmts), from the i-th pair on.
partition_from(stmts, ir_stmts, i, ctes, result) ==
    IF i > Len(stmts) \/ i > Len(ir_stmts) THEN Partitioned(NoError, result, ctes)
    ELSE partition_group(stmts, ir_stmts, i,
                         take_group(ctes, ir_stmts[i], FALSE, <<>>), result)

\* lines 811-865, for the CTE list of the compiled tree.
partition_ctes(stmts, ir_stmts, ctes) ==
    IF ctes = <<>> THEN Partitioned(PyError("AssertionError"), <<>>, ctes)
    ELSE partition_from(stmts, ir_stmts, 1, ctes, <<>>)

\* Mutant: the exception goes on as it was caught.
reraised_as_caught(e) == e

\* lines 803-809: a QueryError of the compiler, raised again.
reraised(e) == QueryError(e.msg, "none", "ERROR_DATA_EXCEPTION")

(***************************************************************************)
(* resolve_InsertStmt and resolve_DMLQuery                                 *)
(***************************************************************************)
\* Mutant: one more level of nesting is let through.
too_deep_at_three(subquery_depth) == subquery_depth >= 3

\* line 935
too_deep(subquery_depth) == subquery_depth >= 2

NoCompiledDML == CompiledDML("", NoQuery, <<>>, "", <<>>, "", <<>>)

\* lines 935-943: the depth check and the lookup.  looked_up tells whether
\* line 943 was reached.
insert_lookup(stmt, ctx, subquery_depth) ==
    IF too_deep(subquery_depth)
    THEN [error |-> QueryError(<<"WITH clause containing a data-modifying statement must be at the top level">>,
                               stmt.span, "ERROR_FEATURE_NOT_SUPPORTED"),
          looked_up |-> FALSE, compiled_dml |-> NoCompiledDML]
    ELSE IF ~DictHas(ctx.compiled_dml, stmt.id)
    THEN [error |-> PyError("KeyError"), looked_up |-> TRUE,
          compiled_dml |-> NoCompiledDML]
    ELSE [error |-> NoError, looked_up |-> TRUE,
          compiled_dml |-> DictGet(ctx.compiled_dml, stmt.id)]

\* pg_res_rel.extract_ctes_from_ctx: at the top level the buffered CTEs, which
\* leave the buffer; nothing in a nested context.
extract_ctes_from_ctx(ctx, subquery_depth) ==
    IF subquery_depth = 0
    THEN [ctes |-> ctx.ctes_buffer, ctx |-> [ctx EXCEPT !.ctes_buffer = <<>>]]
    ELSE [ctes |-> <<>>, ctx |-> ctx]

\* The column count of the table that resolving a value relation yields.
value_table_width(value_relation) ==
    IF value_relation.values # <<>> THEN Len(value_relation.values[1])
    ELSE Len(value_relation.target_list)

\* The resolved value relation: the relation, its CTEs resolved.
resolved_value_relation(value_relation) ==
    [value_relation EXCEPT
        !.ctes = [i \in DOMAIN @ |->
                     CommonTableExpr(@[i].name,
                                     [type |-> "Resolved", id |-> @[i].query.id])]]

\* Mutant: lines 975-978 left out, no column is cast.
value_target_list_uncast(compiled_dml, width) ==
    [i \in 1..(IF width < Len(compiled_dml.value_columns)
               THEN width ELSE Len(compiled_dml.value_columns)) |->
        [name |-> compiled_dml.value_columns[i][1],
         val |-> [type |-> "ColumnRef", name |-> alias_get("col", i)]]]
    \o <<[name |-> compiled_dml.value_iterator_name,
          val |-> [type |-> "FuncCall", name |-> "edgedb.uuid_generate_v4"]]>>

\* lines 966-992: one target per zipped pair of value column and expected
\* pointer, then the iterator column.
value_target_list(compiled_dml, width) ==
    [i \in 1..(IF width < Len(compiled_dml.value_columns)
               THEN width ELSE Len(compiled_dml.value_columns)) |->
        [name |-> compiled_dml.value_columns[i][1],
         val |-> [type |-> IF compiled_dml.value_columns[i][2]
                           THEN "TypeCast uuid" ELSE "ColumnRef",
                  name |-> alias_get("col", i)]]]
    \o <<[name |-> compiled_dml.value_iterator_name,
          val |-> [type |-> "FuncCall", name |-> "edgedb.uuid_generate_v4"]]>>

\* lines 998-1004
value_cte(compiled_dml, val_rel) ==
    CommonTableExpr(
        compiled_dml.value_cte_name,
        SelectStmt(<<>>, value_target_list(compiled_dml, value_table_width(val_rel)),
                   <<[type |-> "RangeSubselect", alias |-> "None",
                      subquery |-> [val_rel EXCEPT !.ctes = <<>>]]>>,
                   "None", <<>>, "none"))

\* _resolve_returning_rows, lines 1056-1098; `alias` counts the names handed
\* out before.  RETURNING * resolves to every column of the inserted table.
_resolve_returning_rows(output_relation_name, output_namespace, alias) ==
    SelectStmt(<<>>,
               [i \in DOMAIN output_namespace |->
                   [name |-> output_namespace[i].key,
                    val |-> [type |-> "ColumnRef",
                             name |-> alias_get("ins", alias + 1)]]],
               <<[type |-> "RangeSubselect", alias |-> alias_get("ins", alias + 1),
                  subquery |->
                      SelectStmt(<<>>,
                                 [i \in DOMAIN output_namespace |->
                                     [name |-> output_namespace[i].key,
                                      val |-> output_namespace[i].val]],
                                 <<[type |-> "RelRangeVar", alias |-> "None",
                                    relation |-> output_relation_name]>>,
                                 "None", <<>>, "none")]>>,
               "None", <<>>, "none")

\* Mutant: the count is selected at every depth.
insert_result_query_counting(stmt, compiled_dml, alias, subquery_depth) ==
    IF stmt.returning_list # <<>>
    THEN _resolve_returning_rows(compiled_dml.output_relation_name,
                                 compiled_dml.output_namespace, alias)
    ELSE SelectStmt(<<>>,
                    <<[name |-> "None",
                       val |-> [type |-> "FuncCall", name |-> "count(*)"]]>>,
                    <<[type |-> "RelRangeVar", alias |-> "None",
                       relation |-> compiled_dml.output_relation_name]>>,
                    "None", <<>>, "none")

\* lines 1008-1040: the column names of res_table; RETURNING * gives every
\* column of the inserted relation, and context.Table() has none.
insert_result_table(stmt, compiled_dml) ==
    IF stmt.returning_list # <<>>
    THEN [i \in DOMAIN compiled_dml.output_namespace |->
             compiled_dml.output_namespace[i].key]
    ELSE <<>>

\* lines 1008-1040
insert_result_query(stmt, compiled_dml, alias, subquery_depth) ==
    IF stmt.returning_list # <<>>
    THEN _resolve_returning_rows(compiled_dml.output_relation_name,
                                 compiled_dml.output_namespace, alias)
    ELSE IF subquery_depth = 0
    THEN SelectStmt(<<>>,
                    <<[name |-> "None",
                       val |-> [type |-> "FuncCall", name |-> "count(*)"]]>>,
                    <<[type |-> "RelRangeVar", alias |-> "None",
                       relation |-> compiled_dml.output_relation_name]>>,
                    "None", <<>>, "none")
    ELSE SelectStmt(<<>>, <<>>, <<>>, "None", <<>>, "none")

\* lines 1042-1045, given the result query and what extract_ctes_from_ctx gave.
insert_returns(stmt, res_query, extracted) ==
    [error |-> NoError,
     ret |-> [res_query EXCEPT !.ctes = @ \o extracted.ctes],
     ctx |-> [extracted.ctx EXCEPT
                 !.alias = IF stmt.returning_list # <<>> THEN @ + 1 ELSE @]]

\* lines 994-1045, for the context with the CTEs appended.
insert_wired(stmt, compiled_dml, ctx, subquery_depth) ==
    insert_returns(stmt,
                   insert_result_query(stmt, compiled_dml, ctx.alias, subquery_depth),
                   extract_ctes_from_ctx(ctx, subquery_depth))

\* Mutant: the column counts are not compared.
insert_wire_unchecked(stmt, compiled_dml, ctx, subquery_depth, val_rel) ==
    insert_wired(stmt, compiled_dml,
                 [ctx EXCEPT !.ctes_buffer =
                                 @ \o val_rel.ctes
                                   \o <<value_cte(compiled_dml, val_rel)>>
                                   \o compiled_dml.output_ctes],
                 subquery_depth)

\* Mutant: the output CTEs are appended before the value CTE.
insert_wire_outputs_first(stmt, compiled_dml, ctx, subquery_depth, val_rel) ==
    insert_wired(stmt, compiled_dml,
                 [ctx EXCEPT !.ctes_buffer =
                                 @ \o val_rel.ctes
                                   \o compiled_dml.output_ctes
                                   \o <<value_cte(compiled_dml, val_rel)>>],
                 subquery_depth)

\* lines 957-1045, given the resolved value relation.
insert_wire(stmt, compiled_dml, ctx, subquery_depth, val_rel) ==
    IF Len(compiled_dml.value_columns) # value_table_width(val_rel)
    THEN [error |->
              QueryError(<<"INSERT expected",
                           ToString(Len(compiled_dml.value_columns)),
                           "columns, but got", ToString(value_table_width(val_rel)),
                           "expecting",
                           [i \in DOMAIN compiled_dml.value_columns |->
                               compiled_dml.value_columns[i][1]]>>,
                         compiled_dml.value_relation_input.span, "default"),
          ret |-> NoQuery, ctx |-> ctx]
    ELSE insert_wired(stmt, compiled_dml,
                      [ctx EXCEPT !.ctes_buffer =
                                      @ \o val_rel.ctes
                                        \o <<value_cte(compiled_dml, val_rel)>>
                                        \o compiled_dml.output_ctes],
                      subquery_depth)

\* Mutant: the statement is handed back.
resolve_DMLQuery_returning(query) == [error |-> NoError, ret |-> query]

\* lines 1137-1145
resolve_DMLQuery(query) ==
    [error |-> QueryError(<<"DML queries (UPDATE/DELETE) are not supported">>,
                          query.span, "ERROR_FEATURE_NOT_SUPPORTED"),
     ret |-> NoQuery]

(***************************************************************************)
(* Inputs.                                                                 *)
(***************************************************************************)
AllColumns == [i \in 1..MaxCols |-> Column("c" \o ToString(i), FALSE)]

ColumnLists == {SubSeq(AllColumns, 1, n) : n \in 0..MaxCols}

Rows == UNION {[1..w -> Exprs] : w \in 1..MaxWidth}

ValueLists == UNION {[1..k -> Rows] : k \in 1..MaxRows}

RowSources ==
    {NoQuery, PlainSelect("None"), PlainSelect("1"), SelectWithCtes}
        \cup {ValuesSelect(v) : v \in ValueLists}

CteLists == {<<>>, <<"cte1">>, <<"cte1", "cte2">>}

\* Explicit column lists over the names of a table and one unknown name.
NameLists(table) ==
    UNION {[1..k -> ColumnNames(table) \cup {UnknownColumn}] : k \in 0..MaxColList}

\* The CTE lists an external resolution step may append to the CTE buffer.
Pushed == {<<>>, <<"q1">>}

WherePushed == {<<>>, <<"w1">>}

\* The CTE lists that the resolved query of a COPY may carry.
Attached == {<<>>, <<"a1">>}

CopyTo ==
    {CopyStmt(NoQuery, t, names, w) :
        t \in TableNames, names \in UNION {NameLists(u) : u \in TableNames},
        w \in {"None", "where"}}
    \cup {CopyStmt(PlainSelect("None"), "None", <<>>, "None")}

\* COPY ... FROM PROGRAM 'prog', without options.
CopyFrom(stmt) ==
    [stmt EXCEPT !.is_from = TRUE, !.is_program = TRUE, !.filename = "prog",
                 !.options = <<>>]

CopyStmts == CopyTo \cup {CopyFrom(stmt) : stmt \in CopyTo}

\* INSERT INTO t (names) VALUES (e1, ..., e1), one value per listed name.
ListedInserts ==
    {InsertStmt(1, t, names,
                ValuesSelect(<<[i \in 1..(IF names = <<>> THEN 1 ELSE Len(names)) |-> "e1"]>>),
                <<>>, returning) :
        t \in TableNames, names \in UNION {NameLists(u) : u \in TableNames},
        returning \in {<<>>, <<"*">>}}

\* The column lists of the statements whose row source varies.
StmtColumnLists(table) ==
    IF table = "Movie"
    THEN {<<>>, <<"title">>, <<"title", "director_id">>, <<"director_id", "title">>}
    ELSE IF table = "Movie.actors"
    THEN {<<>>, <<"source", "target">>, <<"target", "role", "source">>, <<"role">>}
    ELSE {<<>>, <<"target", "source">>, <<"source">>}

Inserts ==
    UNION {{InsertStmt(1, t, names, q, ctes, returning) :
                names \in StmtColumnLists(t), q \in RowSources,
                ctes \in {<<>>, <<"cte1">>}, returning \in {<<>>, <<"*">>}} :
           t \in TableNames}

\* The statements of the pipeline.  `id` stands for the identity of the node.
SelectNode(id, ctes) ==
    [type |-> "SelectStmt", id |-> id, ctes |-> ctes, returning_list |-> <<>>,
     span |-> "span~" \o ToString(id)]

DMLNode(type, id) ==
    [type |-> type, id |-> id, ctes |-> <<>>, returning_list |-> <<>>,
     span |-> "span~" \o ToString(id)]

CopyQuery(query) == CopyStmt(query, "None", <<>>, "None")

InsertTemplate(id, k, ctes) ==
    CASE k = 1 -> InsertStmt(id, "Movie", <<"title">>,
                             ValuesSelect(<<<<"e1">>>>), ctes, <<>>)
      [] k = 2 -> InsertStmt(id, "Movie", <<"title">>,
                             ValuesSelect(<<<<"e1">>, <<"e1">>>>), ctes, <<"*">>)
      [] k = 3 -> InsertStmt(id, "Movie.actors", <<"source", "target">>,
                             ValuesSelect(<<<<"e1", "e1">>>>), ctes, <<"*">>)
      [] k = 4 -> InsertStmt(id, "Movie.actors", <<"target", "role">>,
                             ValuesSelect(<<<<"e1", "e1">>>>), ctes, <<>>)
      [] k = 5 -> InsertStmt(id, "Movie.actors", <<"source", "role">>,
                             ValuesSelect(<<<<"e1", "e1">>>>), ctes, <<>>)
      [] k = 6 -> InsertStmt(id, "Movie.tags", <<"source">>,
                             ValuesSelect(<<<<"e1">>>>), ctes, <<>>)
      [] k = 7 -> InsertStmt(id, "Movie", <<"title">>,
                             ValuesSelect(<<<<"DEFAULT">>, <<"e1">>>>), ctes, <<>>)
      [] k = 8 -> InsertStmt(id, "Movie", <<>>, NoQuery, ctes, <<>>)
      [] k = 9 -> InsertStmt(id, "Movie", <<"title">>,
                             ValuesSelect(<<<<"e1", "e1">>>>), ctes, <<>>)
      [] k = 10 -> InsertStmt(id, "Movie.tags", <<"source", "target">>,
                              ValuesSelect(<<<<"e1", "e1">>>>), ctes, <<"*">>)
      [] k = 11 -> InsertStmt(id, "Movie", <<"title", "director_id">>,
                              ValuesSelect(<<<<"e1", "e1">>>>), ctes, <<>>)

TopTemplates == 1..11

CteTemplates == {1, 3, 4}

\* The queries the i-th CTE of a top-level statement can be: a SELECT, an
\* UPDATE, an INSERT, or a SELECT whose own WITH list holds an INSERT or a
\* DELETE.
CteQueries(i) ==
    {SelectNode(i, <<>>), DMLNode("UpdateStmt", i)}
        \cup {InsertTemplate(i, k, <<>>) : k \in CteTemplates}
        \cup {SelectNode(i, <<CommonTableExpr("n" \o ToString(i), inner)>>) :
                 inner \in {InsertTemplate(10 + i, 1, <<>>), DMLNode("DeleteStmt", 10 + i)}}

WithLists ==
    UNION {{[i \in 1..n |-> CommonTableExpr("c" \o ToString(i), f[i])] :
               f \in {g \in [1..n -> UNION {CteQueries(i) : i \in 1..n}] :
                         \A i \in 1..n : g[i] \in CteQueries(i)}} :
           n \in 0..MaxCtes}

TopLevels ==
    {SelectNode(0, ctes) : ctes \in WithLists}
        \cup {InsertTemplate(0, k, ctes) : k \in TopTemplates, ctes \in WithLists}
        \cup {DMLNode("UpdateStmt", 0), DMLNode("DeleteStmt", 0)}
        \cup {CopyQuery(q) : q \in {SelectNode(1, <<>>), InsertTemplate(1, 2, <<>>),
                                    DMLNode("UpdateStmt", 1)}}
        \cup {CopyStmt(NoQuery, "Movie", <<"title">>, "None")}

\* The errors the object-query compiler reports.
CompilerErrors ==
    {QueryError(<<"compiler error">>, "span_ql", "default"),
     QueryError(<<"invalid input">>, "none", "ERROR_INVALID_TEXT_REPRESENTATION")}

(***************************************************************************)
(* SpecValue: the normalizer on every bounded row source.                  *)
(***************************************************************************)
vvars == <<v_pc, v_query, v_ctes, v_cols, v_run1, v_run2>>

svars == <<s_pc, s_given, s_stmt, s_ctx, s_copy, s_pre>>

pvars == <<p_pc, p_top, p_dml, p_ctx, p_batch, p_calls, p_ret, p_stack, p_last>>

vars == <<vvars, svars, pvars>>

IdleValue ==
    /\ v_pc = "idle"
    /\ v_query = NoQuery
    /\ v_ctes = <<>>
    /\ v_cols = <<>>
    /\ v_run1 = NotRun
    /\ v_run2 = NotRun

NoCopyResult ==
    [error |-> PyError("not run"), ret |-> NoQuery, table |-> NoTable,
     found |-> <<>>, buffered |-> <<>>, attached |-> <<>>]

NoPreResult ==
    WithExpected(WithColumns(PreprocessRaised(PyError("not run"), 0, NoQuery), <<>>),
                 <<>>)

NoBatch ==
    [stmts |-> <<>>, failed |-> 0, ir_stmts |-> <<>>, external_rels |-> <<>>,
     ctes |-> <<>>, result |-> <<>>]

NoReturn == [error |-> PyError("not run"), ctes |-> <<>>]

\* A call of a handler: the node and the subquery depth it was called with,
\* the CTE buffer it found, what it raised or returned (the query, and for
\* resolve_InsertStmt the column names of the table), and for
\* resolve_InsertStmt whether it got to the lookup of line 943.
Call(handler, frame, error, looked_up, ret) ==
    [handler |-> handler, span |-> frame.node.span, depth |-> frame.depth,
     error |-> error, looked_up |-> looked_up, buffer |-> frame.buffer,
     ret |-> ret, table |-> <<>>]

NoCall ==
    [handler |-> "None", span |-> "none", depth |-> 0, error |-> NoError,
     looked_up |-> FALSE, buffer |-> <<>>, ret |-> NoQuery, table |-> <<>>]

\* No call of the object-query compiler yet; `raised` is the exception the
\* handler of line 803 caught.
NoCalls == [compile_ast_to_ir |-> 0, compile_ir_to_sql_tree |-> 0, raised |-> NoError]

NewContext == [alias |-> 0, ctes_buffer |-> <<>>, compiled_dml |-> <<>>]

IdlePipeline ==
    /\ p_pc = "idle"
    /\ p_top = NoQuery
    /\ p_dml = <<>>
    /\ p_ctx = NewContext
    /\ p_batch = NoBatch
    /\ p_calls = NoCalls
    /\ p_ret = NoReturn
    /\ p_stack = <<>>
    /\ p_last = NoCall

IdleStmt ==
    /\ s_pc = "idle"
    /\ s_stmt = CopyStmt(NoQuery, "None", <<>>, "None")
    /\ s_given = s_stmt
    /\ s_ctx = [alias |-> 0, ctes_buffer |-> <<>>]
    /\ s_copy = NoCopyResult
    /\ s_pre = NoPreResult

InitValue ==
    /\ v_pc = "start"
    /\ v_query \in RowSources
    /\ v_ctes \in CteLists
    /\ v_cols \in ColumnLists
    /\ v_run1 = NotRun
    /\ v_run2 = NotRun
    /\ IdleStmt
    /\ IdlePipeline

FirstRun ==
    /\ v_pc = "start"
    /\ v_run1' = _preprocess_insert_value(v_query, v_ctes, v_cols)
    /\ v_pc' = "ran1"
    /\ UNCHANGED <<v_query, v_ctes, v_cols, v_run2, svars, pvars>>

SecondRun ==
    /\ v_pc = "ran1"
    /\ v_run1.error = NoError
    /\ v_run2' = _preprocess_insert_value(v_run1.value_query, v_ctes,
                                          v_run1.expected_columns)
    /\ v_pc' = "ran2"
    /\ UNCHANGED <<v_query, v_ctes, v_cols, v_run1, svars, pvars>>

NextValue == FirstRun \/ SecondRun

SpecValue == InitValue /\ [][NextValue]_vars

(***************************************************************************)
(* SpecCols and SpecStmt: one statement through its handler.               *)
(***************************************************************************)
InitStmtWith(stmts) ==
    /\ s_pc = "start"
    /\ s_stmt \in stmts
    /\ s_given = s_stmt
    /\ s_ctx \in {[alias |-> 0, ctes_buffer |-> b] : b \in {<<>>, <<"b1">>}}
    /\ s_copy = NoCopyResult
    /\ s_pre = NoPreResult
    /\ IdleValue
    /\ IdlePipeline

\* What dispatch.resolve returns for the query of a COPY: the query, with the
\* CTEs its own resolution extracted.
resolved_copy_query(stmt, query_ctes) ==
    IF stmt.query = NoQuery THEN NoQuery
    ELSE [stmt.query EXCEPT !.ctes = query_ctes]

\* The call is over: `found` is the CTE buffer it was entered with, `buffered`
\* the CTEs that the resolvers it called appended to the buffer, in order, and
\* `attached` the CTE list of the query that line 61 got.
CopyReturns(got, attached, pushed, where_pushed) ==
    /\ s_copy' = [error |-> got.error, ret |-> got.ret, table |-> got.table,
                  found |-> s_ctx.ctes_buffer,
                  buffered |-> IF got.error = NoError THEN pushed \o where_pushed
                               ELSE pushed,
                  attached |-> attached]
    /\ s_ctx' = got.ctx

CopyResolves(resolved_query, pushed, where_pushed) ==
    CopyReturns(resolve_CopyStmt(s_stmt, s_ctx, resolved_query, pushed, where_pushed),
                IF resolved_query = NoQuery THEN <<>> ELSE resolved_query.ctes,
                pushed, where_pushed)

ResolveCopyStmt ==
    /\ s_pc = "start"
    /\ s_stmt.type = "CopyStmt"
    /\ \E pushed \in Pushed, where_pushed \in WherePushed, query_ctes \in Attached :
         CopyResolves(resolved_copy_query(s_stmt, query_ctes), pushed,
                      IF s_stmt.where_clause = "None" THEN <<>> ELSE where_pushed)
    /\ s_pc' = "done"
    /\ UNCHANGED <<s_given, s_stmt, s_pre, vvars, pvars>>

PreprocessReturns(got) ==
    /\ s_pre' = got
    /\ s_stmt' = [s_stmt EXCEPT !.select_stmt = got.select_stmt]
    /\ s_ctx' = [s_ctx EXCEPT !.alias = got.alias]

PreprocessInsertStmt ==
    /\ s_pc = "start"
    /\ s_stmt.type = "InsertStmt"
    /\ PreprocessReturns(_preprocess_insert_stmt(s_stmt, s_ctx.alias))
    /\ s_pc' = "done"
    /\ UNCHANGED <<s_given, s_copy, vvars, pvars>>

NextCols == ResolveCopyStmt \/ PreprocessInsertStmt

SpecCols == InitStmtWith(CopyStmts \cup ListedInserts) /\ [][NextCols]_vars

NextStmt == PreprocessInsertStmt

SpecStmt == InitStmtWith(Inserts) /\ [][NextStmt]_vars

(***************************************************************************)
(* Spec: a top-level statement through compile_dml, then through the       *)
(* resolver.                                                               *)
(***************************************************************************)
InitPipeline ==
    /\ p_pc = "start"
    /\ p_top \in TopLevels
    /\ p_dml = <<>>
    /\ p_ctx = NewContext
    /\ p_batch = NoBatch
    /\ p_calls = NoCalls
    /\ p_ret = NoReturn
    /\ p_stack = <<>>
    /\ p_last = NoCall
    /\ IdleValue
    /\ IdleStmt

Raise(error) ==
    /\ p_pc' = "raised"
    /\ p_ret' = [error |-> error, ctes |-> <<>>]

\* compile_dml, line 146, done: res is what preprocess_from made of the
\* collected statements.
Preprocessed(collected, res) ==
    /\ p_dml' = res.nodes \o SubSeq(collected, Len(res.nodes) + 1, Len(collected))
    /\ p_ctx' = [p_ctx EXCEPT !.alias = res.alias]
    /\ p_batch' = [p_batch EXCEPT !.stmts = res.stmts, !.failed = res.failed]
    /\ IF res.error # NoError
       THEN Raise(res.error)
       ELSE p_pc' = "preprocessed" /\ UNCHANGED p_ret

\* compile_dml, lines 141-146.
Collected(collected) ==
    IF nothing_collected(collected)
    THEN /\ p_pc' = "compiled"
         /\ p_ret' = [error |-> NoError, ctes |-> <<>>]
         /\ UNCHANGED <<p_dml, p_ctx, p_batch>>
    ELSE Preprocessed(collected, preprocess_from(collected, 1, p_ctx.alias, <<>>, <<>>))

CollectAndPreprocess ==
    /\ p_pc = "start"
    /\ Collected(_collect_dml_stmts(p_top))
    /\ UNCHANGED <<p_top, p_calls, p_stack, p_last, vvars, svars>>

\* lines 794-796 done: the relations of the statements are the rewritten ones.
Merged(merged) ==
    p_batch' = [p_batch EXCEPT
                   !.stmts = [i \in DOMAIN @ |->
                                 [@[i] EXCEPT !.external_rels =
                                                  <<merged.external_rels[i]>>]],
                   !.ir_stmts = merged.ir_stmts,
                   !.external_rels = merged.external_rels]

\* _compile_preprocessed_dml, lines 746-796: compile_ast_to_ir raises, or
\* returns the IR of the merged statement.
CompileAstToIr ==
    /\ p_pc = "preprocessed"
    /\ \/ \E e \in CompilerErrors :
            /\ p_calls' = [p_calls EXCEPT !.compile_ast_to_ir = @ + 1, !.raised = e]
            /\ Raise(reraised(e))
            /\ UNCHANGED p_batch
       \/ /\ p_calls' = [p_calls EXCEPT !.compile_ast_to_ir = @ + 1]
          /\ Merged(_merge_and_prepare_external_rels(
                        ir_statement(merged_ql_stmt(p_batch.stmts)), p_batch.stmts,
                        [i \in DOMAIN p_batch.stmts |-> dml_name(i - 1)]))
          /\ p_pc' = "ir"
          /\ UNCHANGED p_ret
    /\ UNCHANGED <<p_top, p_dml, p_ctx, p_stack, p_last, vvars, svars>>

Aspects == {"serialized", "value", "identity"}

\* The output of the n-th pointer of `pointers` under the m-th aspect of
\* `present`, as an item of path_outputs.
path_output(pointers, present, n, m) ==
    [key |-> PathKey(PathId_extend(PathId_from_type("subject"), pointers[n]),
                     present[m]),
     val |-> ColumnRef(pointers[n] \o "~" \o present[m])]

\* One output for each of the pointers under each of the aspects.
path_outputs_of(pointers, present) ==
    [k \in 1..(Len(pointers) * Len(present)) |->
        path_output(pointers, present, ((k - 1) \div Len(present)) + 1,
                    ((k - 1) % Len(present)) + 1)]

\* The path outputs a compiled CTE of a statement has: an output under each
\* of `aspects` for every pointer of the subject's columns, those named source
\* and target only when `ends` is set.
subject_outputs(stmt, aspects, ends) ==
    path_outputs_of(
        SelectSeq([i \in DOMAIN stmt.subject_columns |-> stmt.subject_columns[i][2]],
                  LAMBDA ptr : ends \/ ptr \notin {"source", "target"}),
        SelectSeq(<<"identity", "value", "serialized">>, LAMBDA a : a \in aspects))

\* The CTE list of the compiled tree: the k-th CTE is marked for the
\* statement markers[k], or for none when markers[k] = 0.
emitted_ctes(markers, aspects, ends, stmts) ==
    [k \in DOMAIN markers |->
        [name |-> alias_get("dml_cte", k),
         for_dml_stmt |-> IF markers[k] = 0 THEN NoMutatingStmt
                          ELSE MutatingStmt(markers[k] - 1),
         query |-> [path_outputs |-> IF markers[k] # 0
                                     THEN subject_outputs(stmts[markers[k]],
                                                          aspects, ends)
                                     ELSE <<>>]]]

\* _compile_preprocessed_dml, lines 811-865, and compile_dml, lines 149-151.
Partition(ctes, part) ==
    /\ p_batch' = [p_batch EXCEPT !.ctes = ctes, !.result = part.result]
    /\ IF part.error # NoError
       THEN Raise(part.error) /\ UNCHANGED p_ctx
       ELSE /\ p_pc' = "compiled"
            /\ p_ctx' = [p_ctx EXCEPT !.compiled_dml = part.result]
            /\ p_ret' = [error |-> NoError, ctes |-> part.ctes]

\* _compile_preprocessed_dml, lines 797-865: compile_ir_to_sql_tree raises, or
\* returns a tree with some list of CTEs.
CompileIrToSql ==
    /\ p_pc = "ir"
    /\ \/ \E e \in CompilerErrors :
            /\ p_calls' = [p_calls EXCEPT !.compile_ir_to_sql_tree = @ + 1, !.raised = e]
            /\ Raise(reraised(e))
            /\ UNCHANGED <<p_batch, p_ctx>>
       \/ \E markers \in SeqsUpTo(0..Len(p_batch.stmts), MaxEmit),
             aspects \in SUBSET Aspects, ends \in BOOLEAN :
            /\ p_calls' = [p_calls EXCEPT !.compile_ir_to_sql_tree = @ + 1]
            /\ Partition(emitted_ctes(markers, aspects, ends, p_batch.stmts),
                         partition_ctes(p_batch.stmts, p_batch.ir_stmts,
                                        emitted_ctes(markers, aspects, ends,
                                                     p_batch.stmts)))
    /\ UNCHANGED <<p_top, p_dml, p_stack, p_last, vvars, svars>>

\* A call of the resolver in progress: the node, the subquery depth of its
\* context, the CTE buffer when it was entered, the compiled DML an INSERT
\* looked up, and the nodes it has yet to resolve, each with its depth.
Frame(node, depth, buffer) ==
    [node |-> node, depth |-> depth, buffer |-> buffer, stage |-> "enter",
     compiled_dml |-> NoCompiledDML, todo |-> <<>>]

Inner(ctes, depth) == [i \in DOMAIN ctes |-> [node |-> ctes[i].query, depth |-> depth]]

\* The caller of compile_dml resolves the top-level statement next, in the
\* same context.
StartResolve ==
    /\ p_pc = "compiled"
    /\ p_pc' = "walk"
    /\ p_stack' = <<Frame(p_top, 0, p_ctx.ctes_buffer)>>
    /\ UNCHANGED <<p_top, p_dml, p_ctx, p_batch, p_calls, p_ret, p_last, vvars, svars>>

\* The resolver goes into the next node the innermost call has to resolve.
Descend ==
    /\ p_pc = "walk"
    /\ p_stack[1].stage = "open"
    /\ p_stack[1].todo # <<>>
    /\ p_stack' = <<Frame(p_stack[1].todo[1].node, p_stack[1].todo[1].depth,
                          p_ctx.ctes_buffer)>>
                    \o <<[p_stack[1] EXCEPT !.todo = Tail(@)]>>
                    \o Tail(p_stack)
    /\ UNCHANGED <<p_pc, p_top, p_dml, p_ctx, p_batch, p_calls, p_ret, p_last, vvars, svars>>

\* The innermost call raises: the error leaves the resolver.
Raised(call) ==
    /\ p_last' = call
    /\ Raise(call.error)
    /\ UNCHANGED <<p_stack, p_ctx>>

\* The innermost call returns.
Returned(call, ctx) ==
    /\ p_last' = call
    /\ p_ctx' = ctx
    /\ p_stack' = Tail(p_stack)
    /\ p_pc' = IF Len(p_stack) = 1 THEN "done" ELSE "walk"
    /\ UNCHANGED p_ret

\* The innermost call goes on to resolve the nodes `todo`.
Opened(call, compiled_dml, todo) ==
    /\ p_last' = call
    /\ p_stack' = <<[p_stack[1] EXCEPT !.stage = "open", !.todo = todo,
                                       !.compiled_dml = compiled_dml]>>
                    \o Tail(p_stack)
    /\ UNCHANGED <<p_pc, p_ret, p_ctx>>

AtNode(types, stage) ==
    /\ p_pc = "walk"
    /\ p_stack[1].node.type \in types
    /\ p_stack[1].stage = stage
    /\ stage = "open" => p_stack[1].todo = <<>>

\* A SELECT: the queries of its WITH list are resolved one level deeper.
ResolveSelectStmt ==
    /\ AtNode({"SelectStmt"}, "enter")
    /\ Opened(Call("resolve_SelectStmt", p_stack[1], NoError, FALSE, NoQuery),
              NoCompiledDML, Inner(p_stack[1].node.ctes, p_stack[1].depth + 1))
    /\ UNCHANGED <<p_top, p_dml, p_batch, p_calls, vvars, svars>>

SelectReturns(extracted) ==
    Returned(Call("resolve_SelectStmt", p_stack[1], NoError, FALSE,
                  [p_stack[1].node EXCEPT !.ctes = extracted.ctes]),
             extracted.ctx)

ReturnSelectStmt ==
    /\ AtNode({"SelectStmt"}, "open")
    /\ SelectReturns(extract_ctes_from_ctx(p_ctx, p_stack[1].depth))
    /\ UNCHANGED <<p_top, p_dml, p_batch, p_calls, vvars, svars>>

\* resolve_InsertStmt, lines 935-956: past the depth check and the lookup, the
\* value relation is resolved, the queries of its WITH list one level deeper.
InsertLookedUp(got) ==
    IF got.error # NoError
    THEN Raised(Call("resolve_InsertStmt", p_stack[1], got.error, got.looked_up, NoQuery))
    ELSE Opened(Call("resolve_InsertStmt", p_stack[1], NoError, TRUE, NoQuery),
                got.compiled_dml,
                Inner(got.compiled_dml.value_relation_input.ctes, p_stack[1].depth + 1))

ResolveInsertStmt ==
    /\ AtNode({"InsertStmt"}, "enter")
    /\ InsertLookedUp(insert_lookup(p_stack[1].node, p_ctx, p_stack[1].depth))
    /\ UNCHANGED <<p_top, p_dml, p_batch, p_calls, vvars, svars>>

\* resolve_InsertStmt, lines 957-1045.
InsertWired(got) ==
    IF got.error # NoError
    THEN Raised(Call("resolve_InsertStmt", p_stack[1], got.error, TRUE, NoQuery))
    ELSE Returned([Call("resolve_InsertStmt", p_stack[1], NoError, TRUE, got.ret)
                      EXCEPT !.table = insert_result_table(p_stack[1].node,
                                                           p_stack[1].compiled_dml)],
                  got.ctx)

ReturnInsertStmt ==
    /\ AtNode({"InsertStmt"}, "open")
    /\ InsertWired(insert_wire(
                       p_stack[1].node, p_stack[1].compiled_dml, p_ctx, p_stack[1].depth,
                       resolved_value_relation(
                           p_stack[1].compiled_dml.value_relation_input)))
    /\ UNCHANGED <<p_top, p_dml, p_batch, p_calls, vvars, svars>>

\* resolve_DMLQuery, lines 1137-1145.
DMLQueryResolved(got) ==
    IF got.error # NoError
    THEN Raised(Call("resolve_DMLQuery", p_stack[1], got.error, FALSE, NoQuery))
    ELSE Returned(Call("resolve_DMLQuery", p_stack[1], NoError, FALSE, got.ret), p_ctx)

ResolveDMLQuery ==
    /\ AtNode({"UpdateStmt", "DeleteStmt"}, "enter")
    /\ DMLQueryResolved(resolve_DMLQuery(p_stack[1].node))
    /\ UNCHANGED <<p_top, p_dml, p_batch, p_calls, vvars, svars>>

\* resolve_CopyStmt, lines 60-61: the query of a COPY is resolved in the
\* context of the COPY itself.
CopyResolveQuery ==
    /\ AtNode({"CopyStmt"}, "enter")
    /\ Opened(Call("resolve_CopyStmt", p_stack[1], NoError, FALSE, NoQuery),
              NoCompiledDML,
              IF p_stack[1].node.query = NoQuery THEN <<>>
              ELSE <<[node |-> p_stack[1].node.query, depth |-> p_stack[1].depth]>>)
    /\ UNCHANGED <<p_top, p_dml, p_batch, p_calls, vvars, svars>>

CopyResolved(got) ==
    IF got.error # NoError
    THEN Raised(Call("resolve_CopyStmt", p_stack[1], got.error, FALSE, NoQuery))
    ELSE Returned(Call("resolve_CopyStmt", p_stack[1], NoError, FALSE, got.ret), got.ctx)

\* resolve_CopyStmt, lines 63-111.
CopyReturn ==
    /\ AtNode({"CopyStmt"}, "open")
    /\ CopyResolved(resolve_CopyStmt(
                        p_stack[1].node, p_ctx,
                        IF p_stack[1].node.query = NoQuery THEN NoQuery ELSE p_last.ret,
                        <<>>, <<>>))
    /\ UNCHANGED <<p_top, p_dml, p_batch, p_calls, vvars, svars>>

Next ==
    \/ CollectAndPreprocess
    \/ CompileAstToIr
    \/ CompileIrToSql
    \/ StartResolve
    \/ Descend
    \/ ResolveSelectStmt
    \/ ReturnSelectStmt
    \/ ResolveInsertStmt
    \/ ReturnInsertStmt
    \/ ResolveDMLQuery
    \/ CopyResolveQuery
    \/ CopyReturn

Spec == InitPipeline /\ [][Next]_vars

(***************************************************************************)
(* Claims about the normalizer.                                            *)
(***************************************************************************)
IsValues(q) == q.type = "SelectStmt" /\ q.values # <<>>

HoldsDefault(values, r, i) == i \in DOMAIN values[r] /\ is_default(values[r][i])

\* Some position holds DEFAULT in at least one row but not in every row.
MixedDefault(values) ==
    \E i \in UNION {DOMAIN values[r] : r \in DOMAIN values} :
        /\ \E r \in DOMAIN values : HoldsDefault(values, r, i)
        /\ \E r \in DOMAIN values : ~HoldsDefault(values, r, i)

IsUnsupportedDefault(e) ==
    e.type = "QueryError" /\ e.pgext_code = "ERROR_FEATURE_NOT_SUPPORTED"

\* C5: a VALUES list with DEFAULT in some but not all rows of a position makes
\* _preprocess_insert_value raise the feature-not-supported QueryError, and a
\* list whose DEFAULT positions are DEFAULT in all rows never raises it.
C5_MixedDefaultRaisesUnsupported ==
    (v_pc # "start" /\ IsValues(v_query)) =>
        (MixedDefault(v_query.values) <=> IsUnsupportedDefault(v_run1.error))

KeptPositions(n, values) ==
    LET kept == {i \in 1..n : \E r \in DOMAIN values : ~HoldsDefault(values, r, i)}
    IN [k \in 1..Cardinality(kept) |->
            CHOOSE i \in kept : Cardinality({j \in kept : j < i}) = k - 1]

\* seq without the positions at which every row holds DEFAULT.
WithoutDefaults(seq, values) ==
    [k \in DOMAIN KeptPositions(Len(seq), values) |->
        seq[KeptPositions(Len(seq), values)[k]]]

\* The pointer a column of an object table assigns.
PointerName(column_name) ==
    IF endswith_id(column_name) THEN strip_id(column_name) ELSE column_name

\* The INSERT or UPDATE of the synthetic statement, inside its FOR if it has one.
SyntheticDML(pre) ==
    IF pre.ql_stmt.type = "ForQuery" THEN pre.ql_stmt.result ELSE pre.ql_stmt

\* The pointers the synthetic statement assigns from value columns.
AssignedPointers(pre) ==
    IF SyntheticDML(pre).type = "InsertQuery"
    THEN [i \in DOMAIN SyntheticDML(pre).shape |-> SyntheticDML(pre).shape[i].expr]
    ELSE [i \in DOMAIN SyntheticDML(pre).shape[1].compexpr.elements |->
             SyntheticDML(pre).shape[1].compexpr.elements[i].expr]

\* The pointers the kept columns stand for, in order; source and target of a
\* link table are not assigned from the shape.
KeptPointers(columns, values, is_object) ==
    IF is_object
    THEN [i \in DOMAIN WithoutDefaults(columns, values) |->
             PointerName(WithoutDefaults(columns, values)[i].name)]
    ELSE SelectSeq([i \in DOMAIN WithoutDefaults(columns, values) |->
                       WithoutDefaults(columns, values)[i].name],
                   LAMBDA n : n \notin {"source", "target"})

PreprocessedValues ==
    /\ s_pc = "done"
    /\ s_given.type = "InsertStmt"
    /\ s_pre.error = NoError
    /\ IsValues(s_given.select_stmt)
    /\ ~MixedDefault(s_given.select_stmt.values)

\* C6: when an INSERT whose VALUES list uses DEFAULT consistently has been
\* preprocessed, the expected-column list and every row of the VALUES list are
\* the originals without the positions that hold DEFAULT in all rows, in the
\* original order, and the synthetic statement assigns exactly the pointers of
\* the columns that are left.
C6_DefaultPositionsRemoved ==
    PreprocessedValues =>
        /\ s_pre.expected_columns =
               WithoutDefaults(s_pre.pulled_columns, s_given.select_stmt.values)
        /\ s_stmt.select_stmt.values =
               [r \in DOMAIN s_given.select_stmt.values |->
                   WithoutDefaults(s_given.select_stmt.values[r],
                                   s_given.select_stmt.values)]
        /\ AssignedPointers(s_pre.pre) =
               KeptPointers(s_pre.pulled_columns, s_given.select_stmt.values,
                            s_given.relation = "Movie")

\* C6 happens: two rows (DEFAULT, e1) into Movie (title, director_id) leave the
\* column director_id and two rows (e1).
C6_Witness ==
    /\ PreprocessedValues
    /\ s_given.relation = "Movie"
    /\ s_given.cols = <<"title", "director_id">>
    /\ s_given.select_stmt.values = <<<<"DEFAULT", "e1">>, <<"DEFAULT", "e1">>>>
    /\ s_pre.expected_columns = <<Column("director_id", FALSE)>>
    /\ s_stmt.select_stmt.values = <<<<"e1">>, <<"e1">>>>

(***************************************************************************)
(* Claims about column lists.                                              *)
(***************************************************************************)
\* The names of the columns resolve_CopyStmt selected, or of the columns
\* _preprocess_insert_stmt got from _pull_columns_from_table.
PulledNames ==
    IF s_given.type = "CopyStmt"
    THEN [i \in DOMAIN s_copy.ret.query.target_list |->
             s_copy.ret.query.target_list[i].name[2]]
    ELSE [i \in DOMAIN s_pre.pulled_columns |-> s_pre.pulled_columns[i].name]

ListedNames == IF s_given.type = "CopyStmt" THEN s_given.colnames ELSE s_given.cols

VisibleNames(table) ==
    [i \in DOMAIN SelectSeq(table_columns(table), LAMBDA c : ~c.hidden) |->
        SelectSeq(table_columns(table), LAMBDA c : ~c.hidden)[i].name]

FirstUnknown(names, table) ==
    names[CHOOSE i \in DOMAIN names :
              /\ names[i] \notin ColumnNames(table)
              /\ \A j \in 1..(i - 1) : names[j] \in ColumnNames(table)]

HandlerError == IF s_given.type = "CopyStmt" THEN s_copy.error ELSE s_pre.error

\* C8: for a COPY of a table and for an INSERT alike, without a column list the
\* columns are the table's non-hidden columns in table order, with a list of
\* known names they are the listed columns in the order listed, and with an
\* unknown name in the list the handler raises a QueryError that names the
\* first unknown name.
C8_ColumnsPulledAsListed ==
    (s_pc = "done" /\ s_given.relation # "None") =>
        IF \A i \in DOMAIN ListedNames : ListedNames[i] \in ColumnNames(s_given.relation)
        THEN /\ s_given.type = "CopyStmt" => s_copy.error = NoError
             /\ PulledNames = IF ListedNames = <<>>
                              THEN VisibleNames(s_given.relation)
                              ELSE ListedNames
        ELSE /\ HandlerError.type = "QueryError"
             /\ HandlerError.msg =
                    <<"column", FirstUnknown(ListedNames, s_given.relation),
                      "does not exist">>

\* C8 happens: COPY "Movie" (title, id) selects title and then id.
C8_Witness ==
    /\ s_pc = "done"
    /\ s_given.type = "CopyStmt"
    /\ s_given.relation = "Movie"
    /\ s_given.colnames = <<"title", "id">>
    /\ s_copy.error = NoError
    /\ PulledNames = <<"title", "id">>

CopyReturned == s_pc = "done" /\ s_given.type = "CopyStmt" /\ s_copy.error = NoError

WithoutCtes(query) == [query EXCEPT !.ctes = <<>>]

\* C16: the CopyStmt that resolve_CopyStmt has returned has no relation and no
\* column list, and the is_from, is_program, filename and options of the
\* statement given; for a table target its query is a SELECT from that
\* relation alone, under a new alias, whose targets are the listed columns in
\* the order listed, or the table's non-hidden columns when none is listed,
\* each qualified by that alias; for an explicit query its query is that
\* query as resolved.
C16_CopyWrapsTableInSelect ==
    CopyReturned =>
        /\ s_copy.ret.type = "CopyStmt"
        /\ s_copy.ret.relation = "None"
        /\ s_copy.ret.colnames = <<>>
        /\ s_copy.ret.is_from = s_given.is_from
        /\ s_copy.ret.is_program = s_given.is_program
        /\ s_copy.ret.filename = s_given.filename
        /\ s_copy.ret.options = s_given.options
        /\ IF s_given.query # NoQuery
           THEN WithoutCtes(s_copy.ret.query) = WithoutCtes(s_given.query)
           ELSE /\ s_copy.ret.query.type = "SelectStmt"
                /\ s_copy.ret.query.values = <<>>
                /\ s_copy.ret.query.from_clause
                       = <<[type |-> "RelRangeVar", alias |-> alias_get("rel", 1),
                            relation |-> s_given.relation]>>
                /\ \A i \in DOMAIN s_copy.ret.query.target_list :
                       s_copy.ret.query.target_list[i].name[1] = alias_get("rel", 1)
                /\ PulledNames = IF s_given.colnames = <<>>
                                 THEN VisibleNames(s_given.relation)
                                 ELSE s_given.colnames

\* C16 happens: COPY "Movie.actors" (target, source) FROM PROGRAM returns a
\* SELECT of the two columns in that order.
C16_Witness ==
    /\ CopyReturned
    /\ s_given.relation = "Movie.actors"
    /\ s_given.colnames = <<"target", "source">>
    /\ s_given.is_from
    /\ s_copy.ret.is_program
    /\ s_copy.ret.filename = "prog"
    /\ PulledNames = <<"target", "source">>

\* C17: when resolve_CopyStmt has returned, the CTE buffer of the context is
\* empty, and the CTE list of the produced query is the buffer the call found
\* followed by the CTEs that resolving the query or relation, and then the
\* WHERE clause, appended to the buffer, in that order.
C17_CopyTakesOverTheBuffer ==
    CopyReturned =>
        /\ s_ctx.ctes_buffer = <<>>
        /\ s_copy.ret.query.ctes = s_copy.found \o s_copy.buffered

\* C17 happens: a COPY of a table with a WHERE clause found one CTE in the
\* buffer, and resolving the relation and the WHERE clause each added one.
C17_Witness ==
    /\ CopyReturned
    /\ s_given.relation # "None"
    /\ s_given.where_clause # "None"
    /\ s_copy.found = <<"b1">>
    /\ s_copy.buffered = <<"q1", "w1">>
    /\ s_copy.ret.query.ctes = <<"b1", "q1", "w1">>
    /\ s_ctx.ctes_buffer = <<>>

(***************************************************************************)
(* Claims about compile_dml and the resolver.                              *)
(***************************************************************************)
\* The INSERT statements of a top-level statement in collection order: those
\* of its WITH list in order, then the statement itself.
CollectionOrder(top) ==
    IF top.type = "CopyStmt" THEN <<>>
    ELSE SelectSeq([i \in DOMAIN top.ctes |-> top.ctes[i].query],
                   LAMBDA q : q.type = "InsertStmt")
            \o (IF top.type = "InsertStmt" THEN <<top>> ELSE <<>>)

CompileDmlReturned == p_pc \in {"compiled", "walk", "done"}

\* C1: compile_ast_to_ir and compile_ir_to_sql_tree are never called more than
\* once each; when compile_dml has returned they have been called once each if
\* at least one INSERT was collected; and if none was collected they are
\* never called, no CTE is returned and ctx.compiled_dml is as it was.
C1_CompilerCalledOncePerBatch ==
    /\ p_calls.compile_ast_to_ir <= 1
    /\ p_calls.compile_ir_to_sql_tree <= 1
    /\ (CompileDmlReturned /\ Len(CollectionOrder(p_top)) >= 1) =>
           /\ p_calls.compile_ast_to_ir = 1
           /\ p_calls.compile_ir_to_sql_tree = 1
    /\ Len(CollectionOrder(p_top)) = 0 =>
           /\ p_calls = NoCalls
           /\ p_pc = "compiled" => (p_ret.error = NoError /\ p_ret.ctes = <<>>)
           /\ p_ctx.compiled_dml = NewContext.compiled_dml

\* C1 happens: a batch of three INSERTs has been compiled with one call of
\* each compiler entry point.
C1_Witness ==
    /\ p_pc = "compiled"
    /\ Len(CollectionOrder(p_top)) = 3
    /\ p_calls.compile_ast_to_ir = 1
    /\ p_calls.compile_ir_to_sql_tree = 1

RECURSIVE GroupsFrom(_, _)
\* The output CTEs of the i-th and the following entries of the mapping, one
\* group after the other.
GroupsFrom(compiled_dml, i) ==
    IF i > Len(compiled_dml) THEN <<>>
    ELSE compiled_dml[i].val.output_ctes \o GroupsFrom(compiled_dml, i + 1)

\* C2: when compile_dml has returned for N >= 1 collected INSERTs, the mapping
\* has N entries, the i-th keyed by the i-th statement in collection order, and
\* the groups of the entries in that order followed by the returned CTEs
\* are the CTE list the compiler emitted.
C2_GroupsPartitionEmittedCtes ==
    (p_pc = "compiled" /\ Len(CollectionOrder(p_top)) >= 1) =>
        /\ [i \in DOMAIN p_ctx.compiled_dml |-> p_ctx.compiled_dml[i].key]
               = [i \in DOMAIN CollectionOrder(p_top) |-> CollectionOrder(p_top)[i].id]
        /\ GroupsFrom(p_ctx.compiled_dml, 1) \o p_ret.ctes = p_batch.ctes

\* C2 happens: two INSERTs, three emitted CTEs, one of them left over.
C2_Witness ==
    /\ p_pc = "compiled"
    /\ Len(CollectionOrder(p_top)) = 2
    /\ Len(p_batch.ctes) = 3
    /\ Len(p_ctx.compiled_dml) = 2
    /\ Len(p_ctx.compiled_dml[1].val.output_ctes) = 1
    /\ Len(p_ctx.compiled_dml[2].val.output_ctes) = 1
    /\ Len(p_ret.ctes) = 1

\* C3: a call of resolve_InsertStmt at depth 0 or 1, after compile_dml has
\* run on the top-level statement, finds the entry of its node: the lookup does
\* not raise KeyError.
C3_LookupNeverMisses ==
    (p_last.handler = "resolve_InsertStmt" /\ p_last.depth <= 1) =>
        p_last.error.type # "KeyError"

IsUnsupported(e) ==
    e.type = "QueryError" /\ e.pgext_code = "ERROR_FEATURE_NOT_SUPPORTED"

\* C4: a call of resolve_DMLQuery, at whatever depth and with whatever in the
\* context, raises the feature-not-supported QueryError with the span of the
\* statement and returns nothing.
C4_UpdateDeleteUnsupported ==
    (p_last.handler = "resolve_DMLQuery") =>
        /\ IsUnsupported(p_last.error)
        /\ p_last.error.span = p_last.span
        /\ p_last.ret = NoQuery
        /\ p_pc = "raised"
        /\ p_ret.error = p_last.error

\* C4 happens: a DELETE two levels deep is resolved when the context holds
\* compiled DML.
C4_Witness ==
    /\ p_last.handler = "resolve_DMLQuery"
    /\ p_last.depth = 2
    /\ p_ctx.compiled_dml # <<>>
    /\ IsUnsupported(p_ret.error)

LinkTables == {"Movie.actors", "Movie.tags"}

\* The column source or target that the column list of an INSERT into a link
\* table lacks, source first; "None" when it lacks neither.
LackingColumn(stmt) ==
    IF stmt.relation \notin LinkTables \/ stmt.cols = <<>> THEN "None"
    ELSE IF \A i \in DOMAIN stmt.cols : stmt.cols[i] # "source" THEN "source"
    ELSE IF \A i \in DOMAIN stmt.cols : stmt.cols[i] # "target" THEN "target"
    ELSE "None"

LackingStmts(top) ==
    {i \in DOMAIN CollectionOrder(top) : LackingColumn(CollectionOrder(top)[i]) # "None"}

\* C9: when a collected INSERT into a link table lacks source or target, the
\* compiler is never called and compile_dml ends by raising; and when the
\* preprocessing of such a statement is what raised, the error is the
\* QueryError that names the missing column, with the statement's span.
C9_MissingLinkColumnRaisesFirst ==
    LackingStmts(p_top) # {} =>
        /\ p_calls = NoCalls
        /\ p_pc \in {"start", "raised"}
        /\ (p_pc = "raised" /\ p_batch.failed \in LackingStmts(p_top)) =>
               p_ret.error =
                   QueryError(<<"column",
                                LackingColumn(CollectionOrder(p_top)[p_batch.failed]),
                                "is required when inserting into link tables">>,
                              CollectionOrder(p_top)[p_batch.failed].span, "default")

\* C9 happens: the top-level INSERT of a batch of two lacks source, the INSERT
\* of the WITH list was preprocessed before it, and no compiler call was made.
C9_Witness ==
    /\ p_pc = "raised"
    /\ Len(CollectionOrder(p_top)) = 2
    /\ p_batch.failed = 2
    /\ p_top.type = "InsertStmt"
    /\ LackingColumn(p_top) = "source"
    /\ Len(p_batch.stmts) = 1
    /\ p_ret.error.msg = <<"column", "source", "is required when inserting into link tables">>
    /\ p_calls = NoCalls

\* C10: a call of resolve_InsertStmt at depth 2 or more has raised the
\* feature-not-supported QueryError without reaching the lookup and with the
\* CTE buffer as it found it; a call at depth 0 or 1 has not raised that error.
C10_NestedInsertRejected ==
    (p_last.handler = "resolve_InsertStmt") =>
        IF p_last.depth >= 2
        THEN /\ IsUnsupported(p_last.error)
             /\ p_pc = "raised"
             /\ ~p_last.looked_up
             /\ p_ctx.ctes_buffer = p_last.buffer
        ELSE ~IsUnsupported(p_last.error)

\* C10 happens: an INSERT two levels deep is rejected when the CTE buffer
\* already holds the CTEs of an earlier INSERT.
C10_Witness ==
    /\ p_last.handler = "resolve_InsertStmt"
    /\ p_last.depth = 2
    /\ p_last.buffer # <<>>
    /\ IsUnsupported(p_ret.error)
    /\ p_pc = "raised"

\* The last call is a call of resolve_InsertStmt that got past the lookup and
\* has ended, by raising or by returning.
InsertCallEnded ==
    /\ p_last.handler = "resolve_InsertStmt"
    /\ p_last.looked_up
    /\ p_last.error.type # "KeyError"
    /\ p_last.ret # NoQuery \/ p_last.error # NoError

\* The INSERT the last call was about, and its compiled DML.
LastInsert ==
    CHOOSE stmt \in {CollectionOrder(p_top)[i] : i \in DOMAIN CollectionOrder(p_top)} :
        stmt.span = p_last.span

LastCompiledDML == DictGet(p_ctx.compiled_dml, LastInsert.id)

\* The number of columns of the value relation of a compiled INSERT.
ValueWidth(compiled_dml) ==
    IF compiled_dml.value_relation_input.values # <<>>
    THEN Len(compiled_dml.value_relation_input.values[1])
    ELSE Len(compiled_dml.value_relation_input.target_list)

BufferNames == {p_ctx.ctes_buffer[i].name : i \in DOMAIN p_ctx.ctes_buffer}

\* C11: a call of resolve_InsertStmt whose value relation has another number
\* of columns than there are expected pointers has raised a QueryError that
\* lists the expected pointer names, and neither its value CTE nor any of its
\* output CTEs is in the CTE buffer; with equal numbers it has raised nothing.
C11_ColumnCountChecked ==
    InsertCallEnded =>
        IF Len(LastCompiledDML.value_columns) # ValueWidth(LastCompiledDML)
        THEN /\ p_pc = "raised"
             /\ p_last.error.type = "QueryError"
             /\ p_last.error.msg[1] = "INSERT expected"
             /\ p_last.error.msg[6] =
                    [i \in DOMAIN LastCompiledDML.value_columns |->
                        LastCompiledDML.value_columns[i][1]]
             /\ LastCompiledDML.value_cte_name \notin BufferNames
             /\ \A i \in DOMAIN LastCompiledDML.output_ctes :
                    LastCompiledDML.output_ctes[i].name \notin BufferNames
        ELSE p_last.error = NoError

\* C11 happens: two values for the one listed column of Movie, found when
\* the buffer already holds the CTEs of an INSERT of the WITH list.
C11_Witness ==
    /\ InsertCallEnded
    /\ Len(LastCompiledDML.value_columns) = 1
    /\ ValueWidth(LastCompiledDML) = 2
    /\ p_ctx.ctes_buffer # <<>>
    /\ p_last.error.type = "QueryError"

(***************************************************************************)
(* Claims about the synthetic statement.                                   *)
(***************************************************************************)
\* The row source is one VALUES row or a SELECT with LIMIT 1.
OneRowSource(q) ==
    /\ q.type = "SelectStmt"
    /\ Len(q.values) = 1 \/ q.limit_count = "1"

\* The first step of every path of an INSERT or UPDATE that reads the value.
ValuePathHeads(dml) ==
    IF dml.type = "InsertQuery"
    THEN {dml.shape[i].compexpr.steps[1] : i \in DOMAIN dml.shape}
    ELSE {dml.where.right, dml.shape[1].compexpr.steps[1]}
            \cup {dml.shape[1].compexpr.elements[i].compexpr[1] :
                     i \in DOMAIN dml.shape[1].compexpr.elements}

PreprocessedInsert ==
    /\ s_pc = "done"
    /\ s_given.type = "InsertStmt"
    /\ s_pre.error = NoError

\* C12: for object and link/property tables alike, the synthetic statement of
\* a row source that is one VALUES row or has LIMIT 1 is the bare INSERT or
\* UPDATE, its value paths starting at the value anchor; for every other row
\* source it is a ForQuery over the value anchor around the INSERT or UPDATE,
\* whose value paths start at the iterator alias.
C12_ForQueryUnlessOneRow ==
    PreprocessedInsert =>
        IF OneRowSource(s_given.select_stmt)
        THEN /\ s_pre.pre.ql_stmt.type \in {"InsertQuery", "UpdateQuery"}
             /\ \A head \in ValuePathHeads(s_pre.pre.ql_stmt) :
                    /\ head.type = "IRAnchor"
                    /\ head.name = s_pre.pre.ql_anchors[1].key
        ELSE /\ s_pre.pre.ql_stmt.type = "ForQuery"
             /\ s_pre.pre.ql_stmt.iterator =
                    [type |-> "IRAnchor", name |-> s_pre.pre.ql_anchors[1].key]
             /\ s_pre.pre.ql_stmt.result.type \in {"InsertQuery", "UpdateQuery"}
             /\ s_pre.pre.ql_stmt.iterator_alias # s_pre.pre.ql_anchors[1].key
             /\ \A head \in ValuePathHeads(s_pre.pre.ql_stmt.result) :
                    /\ head.type = "ObjectRef"
                    /\ head.name = s_pre.pre.ql_stmt.iterator_alias

\* C12 happens: a link-table INSERT of two rows with a link property is an
\* UPDATE inside a ForQuery.
C12_Witness ==
    /\ PreprocessedInsert
    /\ s_given.relation = "Movie.actors"
    /\ s_given.select_stmt.type = "SelectStmt"
    /\ Len(s_given.select_stmt.values) = 2
    /\ s_pre.pre.ql_stmt.type = "ForQuery"
    /\ s_pre.pre.ql_stmt.result.type = "UpdateQuery"
    /\ Cardinality(ValuePathHeads(s_pre.pre.ql_stmt.result)) = 1
    /\ s_pre.pre.ql_stmt.result.shape[1].compexpr.elements # <<>>

(***************************************************************************)
(* Claims about RETURNING.                                                 *)
(***************************************************************************)
NotAnEnd(name) == name \notin {"source", "target"}

\* The i-th collected statement is an INSERT into a link or property table
\* with RETURNING.
LinkReturning(i) ==
    /\ CollectionOrder(p_top)[i].relation \in LinkTables
    /\ CollectionOrder(p_top)[i].returning_list # <<>>

\* C13: once compile_dml has returned, for every collected INSERT into a link
\* or property table with RETURNING the returning shape has one element for
\* each non-hidden column other than source and target, in table order, and
\* the output namespace has every non-hidden column of the table, source and
\* target among them as plain column references.
C13_LinkReturningShapeAndNamespace ==
    CompileDmlReturned =>
        \A i \in DOMAIN CollectionOrder(p_top) :
            LinkReturning(i) =>
                /\ [j \in DOMAIN p_batch.stmts[i].ql_returning_shape |->
                       p_batch.stmts[i].ql_returning_shape[j].expr]
                     = SelectSeq(VisibleNames(CollectionOrder(p_top)[i].relation),
                                 NotAnEnd)
                /\ [j \in DOMAIN p_ctx.compiled_dml[i].val.output_namespace |->
                       p_ctx.compiled_dml[i].val.output_namespace[j].key]
                     = VisibleNames(CollectionOrder(p_top)[i].relation)
                /\ \A j \in DOMAIN p_ctx.compiled_dml[i].val.output_namespace :
                       ~NotAnEnd(p_ctx.compiled_dml[i].val.output_namespace[j].key) =>
                           p_ctx.compiled_dml[i].val.output_namespace[j].val
                             = ColumnRef(p_ctx.compiled_dml[i].val.output_namespace[j].key)

\* C13 happens: INSERT INTO "Movie.actors" (source, target) ... RETURNING * in
\* a WITH list has the shape (role) and the namespace (source, target, role).
C13_Witness ==
    /\ p_pc = "compiled"
    /\ Len(CollectionOrder(p_top)) = 2
    /\ LinkReturning(1)
    /\ CollectionOrder(p_top)[1].relation = "Movie.actors"
    /\ Len(p_batch.stmts[1].ql_returning_shape) = 1
    /\ p_batch.stmts[1].ql_returning_shape[1].expr = "role"
    /\ Len(p_ctx.compiled_dml[1].val.output_namespace) = 3

InsertReturned == p_last.handler = "resolve_InsertStmt" /\ p_last.ret # NoQuery

IsCount(target) == target.val.type = "FuncCall" /\ target.val.name = "count(*)"

AliasBeforeFailed ==
    preprocess_from(SubSeq(CollectionOrder(p_top), 1, p_batch.failed - 1),
                    1, 0, <<>>, <<>>).alias

\* What the preprocessing of that statement raised.
PreprocessingError ==
    _preprocess_insert_stmt(CollectionOrder(p_top)[p_batch.failed],
                            AliasBeforeFailed).error

CompileDmlRaised == p_pc = "raised" /\ p_last = NoCall

\* C15: when compile_dml has raised after the compiler raised a QueryError in
\* the batched compile, what it raised is a QueryError with the compiler's
\* message and the data-exception code; and when it has raised because a
\* statement's preprocessing raised, what it raised is the preprocessing's
\* error itself, which never has the data-exception code.
C15_CompilerErrorsReclassifiedOnly ==
    CompileDmlRaised =>
        /\ p_calls.raised # NoError =>
               /\ p_ret.error.type = "QueryError"
               /\ p_ret.error.msg = p_calls.raised.msg
               /\ p_ret.error.pgext_code = "ERROR_DATA_EXCEPTION"
        /\ p_batch.failed # 0 =>
               /\ p_calls = NoCalls
               /\ p_ret.error = PreprocessingError
               /\ p_ret.error.pgext_code # "ERROR_DATA_EXCEPTION"

\* C15 happens: compile_ir_to_sql_tree raised a QueryError with another code
\* and a span, after compile_ast_to_ir had returned.
C15_Witness ==
    /\ CompileDmlRaised
    /\ p_calls.compile_ir_to_sql_tree = 1
    /\ p_calls.raised = QueryError(<<"compiler error">>, "span_ql", "default")
    /\ p_ret.error = QueryError(<<"compiler error">>, "none", "ERROR_DATA_EXCEPTION")

(***************************************************************************)
(* Claims about the partition of the compiler's CTEs.                      *)
(***************************************************************************)
\* The position in the compiler's CTE list of the last CTE of the i-th group.
GroupEnd(i) == Len(GroupsFrom(SubSeq(p_batch.result, 1, i), 1))

\* The group of the i-th statement holds a CTE marked for that statement.
FoundIt(i) ==
    \E k \in DOMAIN p_batch.result[i].val.output_ctes :
        p_batch.result[i].val.output_ctes[k].for_dml_stmt = p_batch.ir_stmts[i]

MarkedForAnother(cte, i) ==
    \E j \in DOMAIN p_batch.ir_stmts : j # i /\ cte.for_dml_stmt = p_batch.ir_stmts[j]

\* C18: in the partition, a group that holds a CTE marked for its statement
\* and does not reach the end of the compiler's list ends just before a CTE
\* that is marked for a different statement: a CTE marked for no statement
\* does not end it.
C18_GroupEndsAtAnotherStatement ==
    \A i \in DOMAIN p_batch.result :
        (FoundIt(i) /\ GroupEnd(i) < Len(p_batch.ctes)) =>
            MarkedForAnother(p_batch.ctes[GroupEnd(i) + 1], i)

\* The group of the i-th statement is some CTEs that are not marked for the
\* statement followed by CTEs that all are.
PrecedingThenMatching(i) ==
    \E k \in DOMAIN p_batch.result[i].val.output_ctes :
        \A j \in DOMAIN p_batch.result[i].val.output_ctes :
            (p_batch.result[i].val.output_ctes[j].for_dml_stmt = p_batch.ir_stmts[i])
                <=> j >= k

\* C18, as the code has it: a group that holds a CTE marked for its statement
\* is the unmatched CTEs before the first such CTE and the CTEs marked for the
\* statement that follow it without a gap, and it ends just before the first
\* CTE not marked for the statement, be that CTE marked for another statement
\* or for none; a group that holds no CTE marked for its statement reaches the
\* end of the compiler's list.
C18_GroupEndsAtFirstUnmatched ==
    \A i \in DOMAIN p_batch.result :
        IF FoundIt(i)
        THEN /\ PrecedingThenMatching(i)
             /\ GroupEnd(i) < Len(p_batch.ctes) =>
                    p_batch.ctes[GroupEnd(i) + 1].for_dml_stmt # p_batch.ir_stmts[i]
        ELSE GroupEnd(i) = Len(p_batch.ctes)

\* C18 happens: the compiler emits a CTE of the statement, a CTE marked for no
\* statement and another CTE of the statement; the group is the first CTE and
\* the other two are returned as left over.
C18_Witness ==
    /\ p_pc = "compiled"
    /\ Len(p_batch.result) = 1
    /\ Len(p_batch.ctes) = 3
    /\ p_batch.ctes[1].for_dml_stmt = p_batch.ir_stmts[1]
    /\ p_batch.ctes[2].for_dml_stmt = NoMutatingStmt
    /\ p_batch.ctes[3].for_dml_stmt = p_batch.ir_stmts[1]
    /\ p_batch.result[1].val.output_ctes = <<p_batch.ctes[1]>>
    /\ p_ret.ctes = <<p_batch.ctes[2], p_batch.ctes[3]>>

(***************************************************************************)
(* Claims about the output namespace.                                      *)
(***************************************************************************)
\* The path outputs of the last CTE of the i-th statement's group.
LastOutputs(i) ==
    p_batch.result[i].val.output_ctes[Len(p_batch.result[i].val.output_ctes)]
        .query.path_outputs

HasOutput(outputs, ptr_name, aspect) ==
    \E k \in DOMAIN outputs :
        /\ ptr_map_name(outputs[k].key.path_id) = ptr_name
        /\ outputs[k].key.aspect = aspect

OutputOf(outputs, ptr_name, aspect) ==
    outputs[CHOOSE k \in DOMAIN outputs :
                /\ ptr_map_name(outputs[k].key.path_id) = ptr_name
                /\ outputs[k].key.aspect = aspect].val

\* The output under the first of serialized, value, identity that is there.
FirstAspect(outputs, ptr_name) ==
    IF HasOutput(outputs, ptr_name, "serialized")
    THEN OutputOf(outputs, ptr_name, "serialized")
    ELSE IF HasOutput(outputs, ptr_name, "value")
    THEN OutputOf(outputs, ptr_name, "value")
    ELSE IF HasOutput(outputs, ptr_name, "identity")
    THEN OutputOf(outputs, ptr_name, "identity")
    ELSE NoExpr

\* The output namespace of the i-th statement has one entry for each of its
\* subject columns, in order.
NamespaceComplete(i) ==
    [j \in DOMAIN p_batch.result[i].val.output_namespace |->
        p_batch.result[i].val.output_namespace[j].key]
      = [j \in DOMAIN p_batch.stmts[i].subject_columns |->
            p_batch.stmts[i].subject_columns[j][1]]

\* The statement after the stored ones is the one at which the partition raised.
AssertedAt(i) ==
    /\ p_pc = "raised"
    /\ p_ret.error = PyError("AssertionError")
    /\ p_batch.ctes # <<>>
    /\ i = Len(p_batch.result) + 1
    /\ i \in DOMAIN p_batch.stmts

\* C19: every subject column of a statement stored by the partition has its
\* entry in the output namespace; the entry is the path output of the column's
\* pointer under the first of serialized, value, identity that is there, and
\* the plain column reference, for a pointer named source or target, only
\* when none is there.
C19_ColumnReferenceOnlyAsFallback ==
    \A i \in DOMAIN p_batch.result :
        /\ NamespaceComplete(i)
        /\ \A j \in DOMAIN p_batch.stmts[i].subject_columns :
               p_batch.result[i].val.output_namespace[j].val
                 = IF FirstAspect(LastOutputs(i), p_batch.stmts[i].subject_columns[j][2])
                        # NoExpr
                   THEN FirstAspect(LastOutputs(i), p_batch.stmts[i].subject_columns[j][2])
                   ELSE ColumnRef(p_batch.stmts[i].subject_columns[j][2])

\* The path outputs of the last CTE of the group that the partition collected
\* for the i-th statement, the statements before it being stored.
OutputsAfterStored(i) ==
    take_group(SubSeq(p_batch.ctes, GroupEnd(i - 1) + 1, Len(p_batch.ctes)),
               p_batch.ir_stmts[i], FALSE, <<>>)
        .stmt_ctes[Len(take_group(SubSeq(p_batch.ctes, GroupEnd(i - 1) + 1,
                                         Len(p_batch.ctes)),
                                  p_batch.ir_stmts[i], FALSE, <<>>).stmt_ctes)]
        .query.path_outputs

\* The expression lines 841-847 give a pointer.
ExprFor(outputs, ptr_name) ==
    IF ptr_name \in {"source", "target"} THEN ColumnRef(ptr_name)
    ELSE FirstAspect(outputs, ptr_name)

\* C19, as the code has it: every subject column of a statement stored by the
\* partition has its entry in the output namespace; for a pointer named
\* source or target the entry is the plain column reference whatever path
\* outputs there are, and for any other pointer it is the path output under
\* the first of serialized, value, identity that is there.  When the
\* partition raised the assertion of line 848 at a statement, a pointer of
\* that statement other than source and target has no output under any of
\* the three in the last CTE of the statement's group.
C19_ColumnReferenceForSourceAndTarget ==
    /\ \A i \in DOMAIN p_batch.result :
          /\ NamespaceComplete(i)
          /\ \A j \in DOMAIN p_batch.stmts[i].subject_columns :
                /\ p_batch.result[i].val.output_namespace[j].val # NoExpr
                /\ p_batch.result[i].val.output_namespace[j].val
                     = ExprFor(LastOutputs(i), p_batch.stmts[i].subject_columns[j][2])
    /\ \A i \in DOMAIN p_batch.stmts :
          AssertedAt(i) =>
              \E j \in DOMAIN p_batch.stmts[i].subject_columns :
                  /\ p_batch.stmts[i].subject_columns[j][2] \notin {"source", "target"}
                  /\ \A a \in Aspects :
                         ~HasOutput(OutputsAfterStored(i),
                                    p_batch.stmts[i].subject_columns[j][2], a)

\* C19 happens: for INSERT INTO "Movie.actors" ... RETURNING * the compiler
\* gives outputs under value and identity for source, target and role; the
\* namespace has the value output for role and plain column references for
\* source and target.
C19_Witness ==
    /\ p_pc = "compiled"
    /\ Len(p_batch.result) >= 1
    /\ Len(p_batch.stmts[1].subject_columns) = 3
    /\ HasOutput(LastOutputs(1), "source", "value")
    /\ HasOutput(LastOutputs(1), "role", "identity")
    /\ ~HasOutput(LastOutputs(1), "role", "serialized")
    /\ DictGet(p_batch.result[1].val.output_namespace, "source") = ColumnRef("source")
    /\ DictGet(p_batch.result[1].val.output_namespace, "target") = ColumnRef("target")
    /\ DictGet(p_batch.result[1].val.output_namespace, "role") = ColumnRef("role~value")

(***************************************************************************)
(* Claims about the CTE buffer.                                            *)
(***************************************************************************)
Names(ctes) == [i \in DOMAIN ctes |-> ctes[i].name]

\* The step in which a call of resolve_InsertStmt runs lines 957-1045 and
\* returns.
InsertAppends ==
    /\ AtNode({"InsertStmt"}, "open")
    /\ p_last'.handler = "resolve_InsertStmt"
    /\ p_last'.ret # NoQuery

\* The buffer after the CTEs were appended: at depth 0 it is then taken out of
\* the context and attached to the returned query (line 1044).
BufferAfter == IF p_stack[1].depth = 0 THEN p_last'.ret.ctes ELSE p_ctx'.ctes_buffer

\* The name of the phantom relation that preprocessing built for a statement.
PhantomName(id) ==
    p_batch.stmts[CHOOSE i \in DOMAIN p_batch.stmts : p_batch.stmts[i].input = id]
        .external_rels[1].val.rel.name

\* `after` is `before` followed by CTEs with the names of the value relation's
\* own CTEs, the CTE named value_cte_name, and the output CTEs.
AppendedInOrder(before, after, compiled_dml) ==
    /\ Len(after) = Len(before) + Len(compiled_dml.value_relation_input.ctes) + 1
                      + Len(compiled_dml.output_ctes)
    /\ SubSeq(after, 1, Len(before)) = before
    /\ Names(SubSeq(after, Len(before) + 1,
                    Len(before) + Len(compiled_dml.value_relation_input.ctes)))
         = Names(compiled_dml.value_relation_input.ctes)
    /\ after[Len(before) + Len(compiled_dml.value_relation_input.ctes) + 1].name
         = compiled_dml.value_cte_name
    /\ SubSeq(after, Len(before) + Len(compiled_dml.value_relation_input.ctes) + 2,
              Len(after))
         = compiled_dml.output_ctes

\* C20: in the step in which resolve_InsertStmt appends to the CTE buffer, the
\* buffer it found stays in front and what follows is the CTEs of the resolved
\* value relation, then one CTE named by value_cte_name, which is the name of
\* the phantom relation of preprocessing, then the statement's output CTEs in
\* the order the partition stored them.
C20_ValueCteBeforeOutputCtes ==
    [][InsertAppends =>
          /\ AppendedInOrder(p_ctx.ctes_buffer, BufferAfter,
                             DictGet(p_ctx.compiled_dml, p_stack[1].node.id))
          /\ DictGet(p_ctx.compiled_dml, p_stack[1].node.id).value_cte_name
               = PhantomName(p_stack[1].node.id)]_vars

\* C20 happens: a top-level INSERT whose WITH list holds an INSERT has returned
\* a query whose CTE list is the value CTE and the output CTEs of the inner
\* INSERT, then the CTE of the WITH list, the value CTE and the output CTEs of
\* its own.
C20_Witness ==
    /\ p_pc = "done"
    /\ InsertReturned
    /\ p_last.depth = 0
    /\ Len(CollectionOrder(p_top)) = 2
    /\ Len(p_ctx.compiled_dml[1].val.output_ctes) = 2
    /\ Len(p_ctx.compiled_dml[2].val.output_ctes) = 1
    /\ Names(p_last.ret.ctes)
         = <<p_ctx.compiled_dml[1].val.value_cte_name>>
             \o Names(p_ctx.compiled_dml[1].val.output_ctes)
             \o Names(p_top.ctes)
             \o <<p_ctx.compiled_dml[2].val.value_cte_name>>
             \o Names(p_ctx.compiled_dml[2].val.output_ctes)

(***************************************************************************)
(* Claims about the external relations.                                    *)
(***************************************************************************)
\* The path outputs of the external relation of the i-th statement.
RelOutputs(i) == p_batch.stmts[i].external_rels[1].val.rel.path_outputs

\* The outputs that preprocessing gave the relation: their ids have no
\* namespace.
AsPreprocessed(item) == item.key.path_id.namespace = {}

\* `item` is `given` with the namespace on its id and none on the prefix.
Rekeyed(item, given, namespace) ==
    /\ item.key.path_id.namespace = namespace
    /\ item.key.path_id.prefix_namespace = {}
    /\ item.key.path_id.typename = given.key.path_id.typename
    /\ item.key.path_id.steps = given.key.path_id.steps
    /\ item.key.aspect = given.key.aspect
    /\ item.val = given.val

RewrittenFor(i) ==
    /\ p_batch.ir_stmts[i].name = dml_name(i - 1)
    /\ \A k \in DOMAIN RelOutputs(i) :
           AsPreprocessed(RelOutputs(i)[k]) =>
               \E m \in DOMAIN RelOutputs(i) :
                   Rekeyed(RelOutputs(i)[m], RelOutputs(i)[k],
                           p_batch.ir_stmts[i].namespace)
    /\ \A k \in DOMAIN RelOutputs(i) :
           \/ AsPreprocessed(RelOutputs(i)[k])
           \/ RelOutputs(i)[k].key.path_id.namespace = p_batch.ir_stmts[i].namespace

\* C21: compile_ir_to_sql_tree is called only after compile_ast_to_ir has
\* returned, and from then on the external relation of every statement has,
\* for each path output that preprocessing gave it, an output of the same
\* expression whose id has the namespace of the mutating statement under the
\* binding dml_i of that statement and no namespace on its prefix, and has no
\* output with the namespace of another statement.
C21_RelationsRewrittenBeforeSqlCompile ==
    /\ p_calls.compile_ir_to_sql_tree > 0 =>
           /\ p_calls.compile_ast_to_ir > 0
           /\ Len(p_batch.ir_stmts) = Len(p_batch.stmts)
    /\ p_batch.ir_stmts # <<>> =>
           /\ Len(p_batch.ir_stmts) = Len(p_batch.stmts)
           /\ \A i \in DOMAIN p_batch.stmts : RewrittenFor(i)

\* C21 happens: compile_ast_to_ir has returned for a batch of two, the SQL
\* compiler is not yet called, and the relation of the second statement has
\* outputs in the namespace of dml_1.
C21_Witness ==
    /\ p_pc = "ir"
    /\ p_calls.compile_ir_to_sql_tree = 0
    /\ Len(p_batch.stmts) = 2
    /\ p_batch.ir_stmts[2].namespace # p_batch.ir_stmts[1].namespace
    /\ \E k \in DOMAIN RelOutputs(2) :
           RelOutputs(2)[k].key.path_id.namespace = p_batch.ir_stmts[2].namespace
    /\ \E k \in DOMAIN RelOutputs(2) : AsPreprocessed(RelOutputs(2)[k])

(***************************************************************************)
(* Claims about what the handlers leave alone.                             *)
(***************************************************************************)
InsertPreprocessed ==
    s_pc = "done" /\ s_given.type = "InsertStmt" /\ s_pre.error = NoError

\* C22: when _preprocess_insert_stmt has returned, the INSERT it was given,
\* its row source with the VALUES rows and the ctes field included, is field
\* for field what it was before the call.
C22_InputNotMutated == InsertPreprocessed => s_stmt = s_given

\* C23: when resolve_CopyStmt is over for a COPY of a table, the Table that
\* the table resolver returned for the relation has the columns, the alias and
\* the reference name that the resolver gave it.
C23_ResolvedTableNotMutated ==
    (s_pc = "done" /\ s_given.type = "CopyStmt" /\ s_given.relation # "None") =>
        /\ s_copy.table.columns = resolve_table(s_given.relation).columns
        /\ s_copy.table.alias = resolve_table(s_given.relation).alias
        /\ s_copy.table.reference_as = resolve_table(s_given.relation).reference_as

(***************************************************************************)
(* Claims about the degenerate and the malformed VALUES lists.             *)
(***************************************************************************)
\* Every entry of every row is DEFAULT.
AllDefaulted(values) ==
    \A r \in DOMAIN values : \A i \in DOMAIN values[r] : is_default(values[r][i])

NormalizedAllDefaulted ==
    /\ v_pc # "start"
    /\ IsValues(v_query)
    /\ AllDefaulted(v_query.values)
    /\ v_run1.error = NoError

\* SELECT with no targets FROM (VALUES (NULL), ..., (NULL)) AS _, with k rows.
IsPlaceholderRows(q, k) ==
    /\ q.type = "SelectStmt"
    /\ q.values = <<>>
    /\ q.target_list = <<>>
    /\ Len(q.from_clause) = 1
    /\ q.from_clause[1].type = "RangeSubselect"
    /\ q.from_clause[1].alias = "_"
    /\ q.from_clause[1].subquery.target_list = <<>>
    /\ q.from_clause[1].subquery.from_clause = <<>>
    /\ q.from_clause[1].subquery.values = [r \in 1..k |-> <<"NULL">>]

\* C24: when every entry of a VALUES list of k >= 1 rows is DEFAULT and
\* _preprocess_insert_value returns, the row source it returns is a SELECT with
\* no targets FROM (VALUES (NULL), ...) AS _ with exactly k one-column NULL rows,
\* and the expected-column list it returns is empty.
C24_AllDefaultedLeavesNoColumns ==
    NormalizedAllDefaulted =>
        /\ IsPlaceholderRows(v_run1.value_query, Len(v_query.values))
        /\ v_run1.expected_columns = <<>>

\* C24 as amended: the row source is as stated, and the expected-column list
\* that is returned is the given list without its first w columns, w being the
\* width of the rows: it is empty exactly when w columns were expected.
C24_AllDefaultedKeepsRowCount ==
    NormalizedAllDefaulted =>
        /\ IsPlaceholderRows(v_run1.value_query, Len(v_query.values))
        /\ v_run1.expected_columns =
               SubSeq(v_cols, Len(v_query.values[1]) + 1, Len(v_cols))
        /\ (v_run1.expected_columns = <<>>) <=> (Len(v_cols) = Len(v_query.values[1]))

\* C24 happens: two rows (DEFAULT, DEFAULT) for two expected columns give two
\* NULL rows and no column.
C24_Witness ==
    /\ v_pc = "ran1"
    /\ v_query = ValuesSelect(<<<<"DEFAULT", "DEFAULT">>, <<"DEFAULT", "DEFAULT">>>>)
    /\ v_cols = SubSeq(AllColumns, 1, 2)
    /\ v_run1.error = NoError
    /\ v_run1.expected_columns = <<>>
    /\ v_run1.value_query.from_clause[1].subquery.values = <<<<"NULL">>, <<"NULL">>>>

(***************************************************************************)
(* Claims about the column/pointer mapper and the value CTE.               *)
(***************************************************************************)
\* An INSERT whose column list was pulled from the table has been preprocessed.
InsertPulled ==
    /\ s_pc = "done"
    /\ s_given.type = "InsertStmt"
    /\ s_pre.pulled_columns # <<>>

Subject == get_by_id(s_given.relation)

IsSourceOrTarget(col, sub) ==
    sub.kind \in {"Link", "Property"} /\ col.name \in {"source", "target"}

\* The subject has the pointer that the name of the column stands for.
HasPointerFor(col, sub) ==
    IsSourceOrTarget(col, sub) \/ PointerName(col.name) \in sub.ptrs

\* The result is as stated for the column: the subject under the unchanged
\* name, or the pointer named without _id as a link, or the pointer of the
\* same name as a property; an assertion failure when there is no pointer.
MappedAsStated(got, col, sub) ==
    IF IsSourceOrTarget(col, sub)
    THEN got.error = NoError /\ got.ptr.name = sub.shortname /\ got.ptr_name = col.name
    ELSE IF PointerName(col.name) \in sub.ptrs
    THEN /\ got.error = NoError
         /\ got.ptr = maybe_get_ptr(sub, PointerName(col.name))
         /\ got.ptr.name # "None"
         /\ got.ptr_name = PointerName(col.name)
         /\ got.is_link = endswith_id(col.name)
    ELSE got.error = PyError("AssertionError")

VisibleColumns(table) == SelectSeq(table_columns(table), LAMBDA c : ~c.hidden)

\* C25: _get_pointer_for_column, on every column that the column list of an
\* INSERT names, returns the subject under the unchanged name for source and
\* target of a link or property table, the pointer named without _id flagged
\* as a link for another name that ends in _id, the pointer of the same name
\* flagged as a property for any other name, and fails with an assertion when
\* the subject has no such pointer; the INSERT into an object table then has
\* these names and flags as its value columns, or has failed with the
\* assertion, and RETURNING pairs source and target with themselves.
C25_ColumnsMappedToPointers ==
    InsertPulled =>
        /\ \A i \in DOMAIN s_pre.pulled_columns :
              MappedAsStated(_get_pointer_for_column(s_pre.pulled_columns[i], Subject),
                             s_pre.pulled_columns[i], Subject)
        /\ (Subject.kind = "ObjectType") =>
              IF \A i \in DOMAIN s_pre.pulled_columns :
                     HasPointerFor(s_pre.pulled_columns[i], Subject)
              THEN /\ s_pre.error = NoError
                   /\ s_pre.pre.early_result.value_columns =
                          [i \in DOMAIN s_pre.pulled_columns |->
                              <<PointerName(s_pre.pulled_columns[i].name),
                                endswith_id(s_pre.pulled_columns[i].name)>>]
              ELSE s_pre.error = PyError("AssertionError")
        /\ (s_pre.error = NoError /\ s_given.returning_list # <<>>
                /\ Subject.kind # "ObjectType") =>
              s_pre.pre.subject_columns =
                  [i \in DOMAIN VisibleColumns(s_given.relation) |->
                      <<VisibleColumns(s_given.relation)[i].name,
                        VisibleColumns(s_given.relation)[i].name>>]

\* C25 happens: INSERT INTO "Movie" (director_id, tableoid) fails with the
\* assertion, tableoid standing for no pointer of Movie.
C25_Witness ==
    /\ InsertPulled
    /\ s_given.relation = "Movie"
    /\ s_given.cols = <<"director_id", "tableoid">>
    /\ _get_pointer_for_column(s_pre.pulled_columns[1], Subject).ptr_name = "director"
    /\ _get_pointer_for_column(s_pre.pulled_columns[1], Subject).is_link
    /\ s_pre.error = PyError("AssertionError")

\* The names of the columns an INSERT without DEFAULT gives values for.
GivenColumns(stmt) ==
    IF stmt.select_stmt = NoQuery THEN <<>>
    ELSE IF stmt.cols = <<>>
    THEN [i \in DOMAIN VisibleColumns(stmt.relation) |->
             VisibleColumns(stmt.relation)[i].name]
    ELSE stmt.cols

\* The column is one that preprocessing flags as a link.
FlaggedAsLink(name, sub) ==
    IF sub.kind = "ObjectType" THEN endswith_id(name)
    ELSE IF name = "source" THEN TRUE
    ELSE IF name = "target" THEN sub.kind = "Link"
    ELSE FALSE

ExpectedPointerName(name, sub) ==
    IF sub.kind = "ObjectType" THEN PointerName(name) ELSE name

\* The value CTE among the CTEs that the call has appended.
AppendedValueCte(before, after, compiled_dml) ==
    after[Len(before) + Len(compiled_dml.value_relation_input.ctes) + 1]

\* The targets are one per given column, named by its pointer and cast to uuid
\* iff it is flagged as a link, and then the iterator column.
ProjectsValueColumns(targets, stmt, compiled_dml) ==
    /\ Len(targets) = Len(compiled_dml.value_columns) + 1
    /\ Len(compiled_dml.value_columns) = Len(GivenColumns(stmt))
    /\ \A i \in DOMAIN GivenColumns(stmt) :
          /\ compiled_dml.value_columns[i][1] =
                 ExpectedPointerName(GivenColumns(stmt)[i], get_by_id(stmt.relation))
          /\ targets[i].name = compiled_dml.value_columns[i][1]
          /\ (targets[i].val.type = "TypeCast uuid") <=>
                 FlaggedAsLink(GivenColumns(stmt)[i], get_by_id(stmt.relation))
          /\ targets[i].val.type \in {"TypeCast uuid", "ColumnRef"}
    /\ targets[Len(targets)].name = compiled_dml.value_iterator_name
    /\ targets[Len(targets)].val = [type |-> "FuncCall", name |-> "edgedb.uuid_generate_v4"]

\* The iterator name that preprocessing chose for a statement.
PrecomputedIterator(id) ==
    p_batch.stmts[CHOOSE i \in DOMAIN p_batch.stmts : p_batch.stmts[i].input = id]
        .early_result.value_iterator_name

\* C26: in the step in which resolve_InsertStmt builds the value CTE, the CTE
\* projects one target per expected pointer and one more: target i has the
\* i-th expected pointer name and is cast to uuid iff its column is flagged as
\* a link (object tables: a name ending in _id; link tables: source always,
\* target iff the subject is a link, a link property never), and the last
\* target is the iterator column under the name chosen in preprocessing,
\* populated by uuid_generate_v4().
C26_ValueCteProjection ==
    [][InsertAppends =>
          /\ ProjectsValueColumns(
                 AppendedValueCte(p_ctx.ctes_buffer, BufferAfter,
                                  DictGet(p_ctx.compiled_dml, p_stack[1].node.id))
                     .query.target_list,
                 p_stack[1].node,
                 DictGet(p_ctx.compiled_dml, p_stack[1].node.id))
          /\ DictGet(p_ctx.compiled_dml, p_stack[1].node.id).value_iterator_name
               = PrecomputedIterator(p_stack[1].node.id)]_vars

\* C26 happens: the top-level INSERT INTO "Movie" (title, director_id) has
\* returned with a value CTE of three targets, the second cast to uuid.
C26_Witness ==
    /\ p_pc = "done"
    /\ InsertReturned
    /\ p_top.type = "InsertStmt"
    /\ p_top.cols = <<"title", "director_id">>
    /\ p_top.ctes = <<>>
    /\ Len(p_last.ret.ctes[1].query.target_list) = 3
    /\ p_last.ret.ctes[1].query.target_list[1].val.type = "ColumnRef"
    /\ p_last.ret.ctes[1].query.target_list[2].name = "director"
    /\ p_last.ret.ctes[1].query.target_list[2].val.type = "TypeCast uuid"
    /\ p_last.ret.ctes[1].query.target_list[3].val.type = "FuncCall"

(***************************************************************************)
(* Claims about inputs the handlers do not expect.                         *)
(***************************************************************************)
\* The compiler has emitted a CTE list in which every statement of the batch
\* has a CTE marked for its mutating node.
EveryStatementMarked ==
    /\ p_batch.ctes # <<>>
    /\ \A i \in DOMAIN p_batch.ir_stmts :
          \E k \in DOMAIN p_batch.ctes :
              p_batch.ctes[k].for_dml_stmt = p_batch.ir_stmts[i]

\* C27: when every statement has a CTE marked for it in the list the compiler
\* emitted, in whatever order, the partition does not fail on the last element
\* of an empty group, and every group it has stored is non-empty and ends with
\* a CTE marked for its statement.
C27_GroupEndsWithOwnCte ==
    EveryStatementMarked =>
        /\ p_ret.error # PyError("IndexError")
        /\ \A i \in DOMAIN p_batch.result :
              /\ p_batch.result[i].val.output_ctes # <<>>
              /\ p_batch.result[i].val.output_ctes[Len(p_batch.result[i].val.output_ctes)]
                     .for_dml_stmt = p_batch.ir_stmts[i]

\* An INSERT into a link table has been preprocessed without error.
LinkInsertPreprocessed ==
    /\ s_pc = "done"
    /\ s_given.type = "InsertStmt"
    /\ s_given.relation \in LinkTables
    /\ s_pre.error = NoError

HasValueColumn(value_columns, name) ==
    \E i \in DOMAIN value_columns : value_columns[i][1] = name

\* The phantom relation has a value output for the path.
HasPathOutput(pre, path_id) ==
    \E k \in DOMAIN pre.external_rels[1].val.rel.path_outputs :
        pre.external_rels[1].val.rel.path_outputs[k].key = PathKey(path_id, "value")

\* C28: when _preprocess_insert_pointer_stmt has succeeded, whatever the row
\* source, the value columns hold both source and target and the phantom
\* relation has a path output for the source and for the target.
C28_SourceAndTargetKept ==
    LinkInsertPreprocessed =>
        /\ HasValueColumn(s_pre.pre.early_result.value_columns, "source")
        /\ HasValueColumn(s_pre.pre.early_result.value_columns, "target")
        /\ HasPathOutput(s_pre.pre, pointer_source_id(s_pre.alias - 4))
        /\ HasPathOutput(s_pre.pre,
                         tgt_path(pointer_value_id(Subject, s_pre.alias - 4)))

HoldsCte(ctes, cte) == \E i \in DOMAIN ctes : ctes[i] = cte

\* C29: when resolve_CopyStmt has returned, every CTE that the resolved query
\* of the COPY carried and every CTE buffered in the context is in the CTE
\* list of the query of the CopyStmt returned.
C29_CopyDropsNoCte ==
    CopyReturned =>
        /\ \A i \in DOMAIN s_copy.attached :
              HoldsCte(s_copy.ret.query.ctes, s_copy.attached[i])
        /\ \A i \in DOMAIN (s_copy.found \o s_copy.buffered) :
              HoldsCte(s_copy.ret.query.ctes, (s_copy.found \o s_copy.buffered)[i])

\* C30: on a VALUES list, whatever the lengths of its rows and of the
\* expected-column list, _preprocess_insert_value returns or raises the
\* feature-not-supported QueryError: it does not fail on an index.
C30_NoIndexFailure ==
    (v_pc # "start" /\ IsValues(v_query)) =>
        \/ v_run1.error = NoError
        \/ IsUnsupportedDefault(v_run1.error)

====
